---- MODULE Spec2Model ----
(***************************************************************************)
(* Model of the marvai prompt lifecycle: the .mprompt parser, the source   *)
(* injection, checksum verification, the version comparator and the        *)
(* install / update orchestrators of internal/marvai.                      *)
(*                                                                         *)
(* Text is a sequence of one-character strings.  A file content is a       *)
(* sequence of lines (the result of strings.Split(content, "\n")).         *)
(* A line is a record [key, val, pad]:                                     *)
(*   key = ""            a raw text line, val = <<text>>, pad = number of  *)
(*                       leading blanks (strings.TrimSpace(line) = val[1]) *)
(*   key # "", val # <<>> the YAML line `key: value`; val is the decoded   *)
(*                       value split at its newlines (a double-quoted      *)
(*                       scalar with \n escapes has Len(val) > 1)          *)
(*   key # "", val = <<>> the YAML block header `key: |-`; the value is    *)
(*                       the indented raw lines that follow                *)
(***************************************************************************)
EXTENDS Integers, Sequences, FiniteSets, TLC

VARIABLES
  arg, res, stage,      \* the bounded specifications of the pure functions
  fs,                   \* afero.Fs: path -> [exists, data]
  marvaiDir,            \* the .marvai directory exists
  op, pc,               \* the running command and its position
  promptName,           \* the command's argument
  promptEntry,          \* the registry entry found
  newContent,           \* promptContent / newContent, the downloaded bytes
  existingValues,       \* existingValues of UpdatePrompt
  out,                  \* the messages printed by the running command
  ret,                  \* the command's result once pc = "done"
  hist,                 \* history: the state at the command's start, failed steps
  ops                   \* commands started so far

pureVars == <<arg, res, stage>>

cmdVars == <<fs, marvaiDir, op, pc, promptName, promptEntry, newContent, existingValues,
            out, ret, hist, ops>>

vars == <<arg, res, stage, fs, marvaiDir, op, pc, promptName, promptEntry, newContent,
          existingValues, out, ret, hist, ops>>

----------------------------------------------------------------------------
(* Characters and strings *)

Digits == {"0", "1", "2", "3", "4", "5", "6", "7", "8", "9"}

Lower == {"a", "b", "c", "d", "e", "f", "g", "h", "i", "j", "k", "l", "m",
          "n", "o", "p", "q", "r", "s", "t", "u", "v", "w", "x", "y", "z"}

Upper == {"A", "B", "C", "D", "E", "F", "G", "H", "I", "J", "K", "L", "M",
          "N", "O", "P", "Q", "R", "S", "T", "U", "V", "W", "X", "Y", "Z"}

\* two characters that cannot be written in a string of this module: DEL
\* (code 127) and a letter outside ASCII, whose UTF-8 encoding has two bytes
CharDel == "<DEL>"
CharWide == "<U+00E9>"

EmptyText == <<>>

\* len(s) of a Go string: the number of bytes of its UTF-8 encoding
ByteLen(text) == Len(text) + Cardinality({i \in 1..Len(text) : text[i] = CharWide})

\* the Go string "" as a sequence of lines: strings.Split("", "\n") = [""]
EmptyStr == <<EmptyText>>

Dashes == <<"-", "-">>

Str(text) == <<text>>

----------------------------------------------------------------------------
(* Lines *)

Raw(text, pad) == [key |-> "", val |-> <<text>>, pad |-> pad]

KV(key, value) == [key |-> key, val |-> value, pad |-> 0]

Sub(key, value) == [key |-> key, val |-> value, pad |-> 2]

BlockHeader(key) == [key |-> key, val |-> <<>>, pad |-> 0]

\* strings.TrimSpace(line) == "--"
IsSeparator(line) == line.key = "" /\ line.val = <<Dashes>>

\* strings.TrimSpace(line) == ""
IsBlank(line) == line.key = "" /\ line.val = <<EmptyText>>

----------------------------------------------------------------------------
(* gopkg.in/yaml.v3 on the MPromptFrontmatter struct *)

FmKeys == {"name", "description", "author", "version", "file", "source"}

ZeroFrontmatter ==
  [name |-> EmptyStr, description |-> EmptyStr, author |-> EmptyStr,
   version |-> EmptyStr, file |-> EmptyStr, source |-> EmptyStr]

SetField(fm, key, value) ==
  IF key \in FmKeys THEN [fm EXCEPT ![key] = value] ELSE fm

\* number of consecutive indented raw lines from position i on: the body of a
\* literal block scalar
RECURSIVE BlockLen(_, _)
BlockLen(lines, i) ==
  IF i > Len(lines) THEN 0
  ELSE IF lines[i].key = "" /\ lines[i].pad > 0 /\ ~IsBlank(lines[i])
       THEN 1 + BlockLen(lines, i + 1)
       ELSE 0

BlockValue(lines, i, n) ==
  IF n = 0 THEN EmptyStr ELSE [j \in 1..n |-> lines[i + j - 1].val[1]]

\* yaml.Unmarshal(frontmatterYaml, &frontmatter): a mapping of scalars; unknown
\* keys are ignored, a duplicate key or a line that is no mapping entry is an error
RECURSIVE FmDecode(_, _, _, _)
FmDecode(lines, i, fm, seen) ==
  IF i > Len(lines) THEN [ok |-> TRUE, fm |-> fm]
  ELSE LET ln == lines[i] IN
    IF IsBlank(ln) THEN FmDecode(lines, i + 1, fm, seen)
    ELSE IF ln.key = "" \/ ln.pad # 0 \/ ln.key \in seen
      THEN [ok |-> FALSE, fm |-> ZeroFrontmatter]
    ELSE IF ln.val = <<>>
      THEN LET n == BlockLen(lines, i + 1) IN
           FmDecode(lines, i + 1 + n,
                    SetField(fm, ln.key, BlockValue(lines, i + 1, n)),
                    seen \cup {ln.key})
    ELSE FmDecode(lines, i + 1, SetField(fm, ln.key, ln.val), seen \cup {ln.key})

yamlUnmarshalFrontmatter(lines) == FmDecode(lines, 1, ZeroFrontmatter, {})

\* one struct field as yaml.v3 emits it: a string holding a newline is written
\* in literal block style, its lines indented by four blanks
EmitField(key, value) ==
  IF Len(value) > 1
  THEN <<BlockHeader(key)>> \o [j \in 1..Len(value) |-> Raw(value[j], 4)]
  ELSE <<KV(key, value)>>

EmitOmitEmpty(key, value) ==
  IF value = EmptyStr THEN <<>> ELSE EmitField(key, value)

\* strings.TrimSpace(string(yaml.Marshal(&frontmatter))): the fields in struct
\* order, file and source omitted when empty
yamlMarshalFrontmatter(fm) ==
  EmitField("name", fm.name) \o EmitField("description", fm.description)
  \o EmitField("author", fm.author) \o EmitField("version", fm.version)
  \o EmitOmitEmpty("file", fm.file) \o EmitOmitEmpty("source", fm.source)

----------------------------------------------------------------------------
(* Wizard variables *)

TextTrue == <<"t", "r", "u", "e">>
TextFalse == <<"f", "a", "l", "s", "e">>
TextString == <<"s", "t", "r", "i", "n", "g">>

ZeroVariable(id) ==
  [id |-> id, description |-> EmptyText, type |-> EmptyText, required |-> FALSE]

WizardKeys == {"id", "description", "type", "required"}

\* the key of a line that opens a sequence entry (`- key: value`), "" if it opens none
EntryKey(line) ==
  IF line.pad # 0 THEN ""
  ELSE IF line.key = "- id" THEN "id"
  ELSE IF line.key = "- description" THEN "description"
  ELSE IF line.key = "- type" THEN "type"
  ELSE IF line.key = "- required" THEN "required"
  ELSE IF line.key = "- question" THEN "question"
  ELSE ""

\* decoding one mapping entry into the struct: required takes a boolean, the
\* other fields take the scalar as a string, an unknown key is ignored
FieldOk(key, value) == key # "required" \/ value \in {TextTrue, TextFalse}

SetVarField(v, key, value) ==
  IF key = "required" THEN [v EXCEPT !.required = (value = TextTrue)]
  ELSE IF key \in WizardKeys THEN [v EXCEPT ![key] = value]
  ELSE v

\* the indented fields of one entry, from position i on; seen holds the keys
\* the mapping has already (a repeated key is an error)
RECURSIVE VarFields(_, _, _, _)
VarFields(lines, i, v, seen) ==
  IF i > Len(lines) THEN [ok |-> TRUE, v |-> v, next |-> i]
  ELSE LET ln == lines[i] IN
    IF IsBlank(ln) THEN VarFields(lines, i + 1, v, seen)
    ELSE IF ln.pad # 2 THEN [ok |-> TRUE, v |-> v, next |-> i]
    ELSE IF ln.key = "" \/ Len(ln.val) # 1 \/ ln.key \in seen \/ ~FieldOk(ln.key, ln.val[1])
      THEN [ok |-> FALSE, v |-> v, next |-> i]
    ELSE VarFields(lines, i + 1, SetVarField(v, ln.key, ln.val[1]), seen \cup {ln.key})

\* the positions of the lines that are neither blank nor indented: each must
\* open an entry
EntryStarts(lines) ==
  SelectSeq([i \in 1..Len(lines) |-> i],
            LAMBDA i : ~IsBlank(lines[i]) /\ lines[i].pad = 0)

\* yaml.Unmarshal(wizardYaml, &variables): a sequence of mappings, entry k
\* running from its opening line to the line before the next opening line
WzDecode(lines, i, acc) ==
  LET starts == EntryStarts(lines)
      last(k) == IF k < Len(starts) THEN starts[k + 1] - 1 ELSE Len(lines)
      entry(k) ==
        LET ln == lines[starts[k]]
            key == EntryKey(ln)
            f == VarFields(SubSeq(lines, 1, last(k)), starts[k] + 1,
                           SetVarField(ZeroVariable(EmptyText), key, ln.val[1]), {key})
        IN IF key = "" \/ Len(ln.val) # 1 \/ ~FieldOk(key, ln.val[1])
           THEN [ok |-> FALSE, v |-> ZeroVariable(EmptyText)]
           ELSE [ok |-> f.ok /\ f.next > last(k), v |-> f.v]
      leading == {j \in i..Len(lines) :
                    ~IsBlank(lines[j]) /\ (starts = <<>> \/ j < starts[1])}
  IN IF leading = {} /\ \A k \in 1..Len(starts) : entry(k).ok
     THEN [ok |-> TRUE, vars |-> acc \o [k \in 1..Len(starts) |-> entry(k).v]]
     ELSE [ok |-> FALSE, vars |-> <<>>]

yamlUnmarshalVariables(lines) == WzDecode(lines, 1, <<>>)

MaxVariables == 100
MaxDescription == 1000

dangerousNames ==
  { <<"_", "_", "p", "r", "o", "t", "o", "_", "_">>,
    <<"c", "o", "n", "s", "t", "r", "u", "c", "t", "o", "r">>,
    <<"p", "r", "o", "t", "o", "t", "y", "p", "e">>,
    <<"t", "o", "S", "t", "r", "i", "n", "g">>,
    <<"v", "a", "l", "u", "e", "O", "f">> }

isValidVariableNameLocal(name) ==
  /\ name # EmptyText
  /\ name \notin dangerousNames
  /\ \A i \in 1..Len(name) : name[i] \in Lower \cup Upper \cup Digits \cup {"_", "-"}

validateWizardVariables(variables) ==
  /\ Len(variables) <= MaxVariables
  /\ \A i \in 1..Len(variables) :
       /\ isValidVariableNameLocal(variables[i].id)
       /\ ByteLen(variables[i].description) <= MaxDescription
       /\ variables[i].type \in {EmptyText, TextString}

----------------------------------------------------------------------------
(* ParseMPromptContent *)

\* a loop without the default case: lines after a third separator are lost
BucketNoDefault(lines, b, i) ==
  LET kept == SelectSeq([j \in 1..Len(lines) |-> j],
                        LAMBDA j : /\ j >= i
                                   /\ ~IsSeparator(lines[j])
                                   /\ Cardinality({k \in 1..(j - 1) : IsSeparator(lines[k])}) = b)
  IN [k \in 1..Len(kept) |-> lines[kept[k]]]

\* the number of separator lines among lines[1..i]
SectionAt(lines, i) == Cardinality({j \in 1..i : IsSeparator(lines[j])})

\* the lines the loop appends to the bucket, from line i on: bucket 2 also
\* takes the default case
Bucket(lines, b, i) ==
  LET kept == SelectSeq([j \in 1..Len(lines) |-> j],
                        LAMBDA j : /\ j >= i
                                   /\ ~IsSeparator(lines[j])
                                   /\ \/ SectionAt(lines, j - 1) = b
                                      \/ (b = 2 /\ SectionAt(lines, j - 1) > 2))
  IN [k \in 1..Len(kept) |-> lines[kept[k]]]

RECURSIVE DropLeadingBlank(_)
DropLeadingBlank(lines) ==
  IF lines # <<>> /\ IsBlank(Head(lines)) THEN DropLeadingBlank(Tail(lines)) ELSE lines

RECURSIVE DropTrailingBlank(_)
DropTrailingBlank(lines) ==
  IF lines # <<>> /\ IsBlank(lines[Len(lines)])
  THEN DropTrailingBlank(SubSeq(lines, 1, Len(lines) - 1))
  ELSE lines

\* strings.TrimSpace(strings.Join(templateLines, "\n"))
TrimTemplate(lines) ==
  LET t == DropTrailingBlank(DropLeadingBlank(lines)) IN
  IF t = <<>> THEN t ELSE [t EXCEPT ![1].pad = 0]

NoData == [Frontmatter |-> ZeroFrontmatter, Variables |-> <<>>, Template |-> <<>>]

ParseMPromptContent(content) ==
  LET fm == yamlUnmarshalFrontmatter(Bucket(content, 0, 1))
      wz == yamlUnmarshalVariables(Bucket(content, 1, 1))
  IN IF ~fm.ok THEN [ok |-> FALSE, err |-> "frontmatter", data |-> NoData]
     ELSE IF ~wz.ok THEN [ok |-> FALSE, err |-> "wizard yaml", data |-> NoData]
     ELSE IF ~validateWizardVariables(wz.vars)
       THEN [ok |-> FALSE, err |-> "invalid wizard variables", data |-> NoData]
     ELSE [ok |-> TRUE, err |-> "",
           data |-> [Frontmatter |-> fm.fm, Variables |-> wz.vars,
                     Template |-> TrimTemplate(Bucket(content, 2, 1))]]

----------------------------------------------------------------------------
(* verifySHA256 *)

\* SHA-256 is modelled as injective: the digest of a content is the content;
\* hex digests compare case-insensitively, so an expected hash is a digest in
\* either letter case.  present = FALSE is the empty expected hash.
NoHash == [present |-> FALSE, digest |-> <<>>, upper |-> FALSE]

HashOf(content, upper) == [present |-> TRUE, digest |-> content, upper |-> upper]

verifySHA256(content, expectedHash) ==
  IF ~expectedHash.present THEN TRUE
  ELSE expectedHash.digest = content

----------------------------------------------------------------------------
(* injectSourceIntoMPrompt *)

\* index of the first separator line, Len + 1 when there is none
RECURSIVE FirstSeparator(_, _)
FirstSeparator(lines, i) ==
  IF i > Len(lines) \/ IsSeparator(lines[i]) THEN i ELSE FirstSeparator(lines, i + 1)

injectSourceIntoMPrompt(content, sourceType) ==
  LET i == FirstSeparator(content, 1)
      frontmatterLines == SubSeq(content, 1, i - 1)
      fm == yamlUnmarshalFrontmatter(frontmatterLines)
  IN IF ~fm.ok THEN [ok |-> FALSE, content |-> <<>>]
     ELSE [ok |-> TRUE,
           content |-> yamlMarshalFrontmatter([fm.fm EXCEPT !.source = Str(sourceType)])
                       \o SubSeq(content, i, Len(content))]

----------------------------------------------------------------------------
(* Byte order of strings *)

\* the printable ASCII characters in code order: codes 32..95 and 97..126
AsciiLow ==
  <<" ", "!", "\"", "#", "$", "%", "&", "'", "(", ")", "*", "+", ",", "-", ".", "/",
    "0", "1", "2", "3", "4", "5", "6", "7", "8", "9", ":", ";", "<", "=", ">", "?",
    "@", "A", "B", "C", "D", "E", "F", "G", "H", "I", "J", "K", "L", "M", "N", "O",
    "P", "Q", "R", "S", "T", "U", "V", "W", "X", "Y", "Z", "[", "\\", "]", "^", "_">>

AsciiHigh ==
  <<"a", "b", "c", "d", "e", "f", "g", "h", "i", "j", "k", "l", "m", "n", "o",
    "p", "q", "r", "s", "t", "u", "v", "w", "x", "y", "z", "{", "|", "}", "~">>

ControlChars == {"\t", "\n", "\f", "\r", CharDel}

\* the code of a character; for the letter outside ASCII its code point, which
\* orders it after every ASCII character as its bytes do
CharCode(c) ==
  IF c = CharWide THEN 233
  ELSE IF c \in ControlChars
  THEN (IF c = "\t" THEN 9 ELSE IF c = "\n" THEN 10 ELSE IF c = "\f" THEN 12
        ELSE IF c = "\r" THEN 13 ELSE 127)
  ELSE IF \E i \in 1..Len(AsciiLow) : AsciiLow[i] = c
  THEN 31 + (CHOOSE i \in 1..Len(AsciiLow) : AsciiLow[i] = c)
  ELSE 96 + (CHOOSE i \in 1..Len(AsciiHigh) : AsciiHigh[i] = c)

\* the Go comparison s < t on strings: byte-wise lexicographic
RECURSIVE StrLess(_, _)
StrLess(s, t) ==
  IF t = <<>> THEN FALSE
  ELSE IF s = <<>> THEN TRUE
  ELSE IF Head(s) # Head(t) THEN CharCode(Head(s)) < CharCode(Head(t))
  ELSE StrLess(Tail(s), Tail(t))

\* index of the first occurrence of character c in s at or after i, Len + 1 if none
RECURSIVE IndexFrom(_, _, _)
IndexFrom(s, c, i) ==
  IF i > Len(s) \/ s[i] = c THEN i ELSE IndexFrom(s, c, i + 1)

\* strings.Split(s, sep) for a one-character separator
RECURSIVE Split(_, _)
Split(s, c) ==
  LET i == IndexFrom(s, c, 1) IN
  IF i > Len(s) THEN <<s>>
  ELSE <<SubSeq(s, 1, i - 1)>> \o Split(SubSeq(s, i + 1, Len(s)), c)

----------------------------------------------------------------------------
(* Version comparator *)

AllDigits(s) == s # <<>> /\ \A i \in 1..Len(s) : s[i] \in Digits

DigitValue(c) == CharCode(c) - 48

RECURSIVE DigitsValue(_)
DigitsValue(s) ==
  IF s = <<>> THEN 0 ELSE 10 * DigitsValue(SubSeq(s, 1, Len(s) - 1)) + DigitValue(s[Len(s)])

\* strconv.Atoi: an optional sign, then decimal digits
Atoi(s) ==
  IF s # <<>> /\ Head(s) \in {"+", "-"}
  THEN IF AllDigits(Tail(s))
       THEN [ok |-> TRUE, n |-> IF Head(s) = "-" THEN 0 - DigitsValue(Tail(s))
                                ELSE DigitsValue(Tail(s))]
       ELSE [ok |-> FALSE, n |-> 0]
  ELSE IF AllDigits(s) THEN [ok |-> TRUE, n |-> DigitsValue(s)]
       ELSE [ok |-> FALSE, n |-> 0]

\* [a-zA-Z0-9\-\.]+
IsIdentChars(s) ==
  s # <<>> /\ \A i \in 1..Len(s) : s[i] \in Lower \cup Upper \cup Digits \cup {"-", "."}

\* ^(\d+)\.(\d+)\.(\d+)(?:-([a-zA-Z0-9\-\.]+))?(?:\+([a-zA-Z0-9\-\.]+))?$
\* The core ends at the first '-' or '+'; the pre-release class holds no '+',
\* so the pre-release ends at the first '+'.
SemverMatch(version) ==
  LET plus == IndexFrom(version, "+", 1)
      beforePlus == SubSeq(version, 1, plus - 1)
      build == SubSeq(version, plus + 1, Len(version))
      hyphen == IndexFrom(beforePlus, "-", 1)
      core == SubSeq(beforePlus, 1, hyphen - 1)
      pre == SubSeq(beforePlus, hyphen + 1, Len(beforePlus))
      nums == Split(core, ".")
  IN IF /\ Len(nums) = 3
        /\ \A i \in 1..3 : AllDigits(nums[i])
        /\ (hyphen <= Len(beforePlus) => IsIdentChars(pre))
        /\ (plus <= Len(version) => IsIdentChars(build))
     THEN [matched |-> TRUE, nums |-> nums,
           pre |-> IF hyphen <= Len(beforePlus) THEN pre ELSE <<>>]
     ELSE [matched |-> FALSE, nums |-> <<>>, pre |-> <<>>]

VersionError == [ok |-> FALSE, major |-> 0, minor |-> 0, patch |-> 0, preRelease |-> <<>>]

\* the "simpler patterns" branch: split at the dots, Atoi each part
parseVersionSimple(version) ==
  LET parts == Split(version, ".")
      major == Atoi(parts[1])
      minor == IF Len(parts) >= 2 THEN Atoi(parts[2]) ELSE [ok |-> TRUE, n |-> 0]
      hyphenIndex == IF Len(parts) >= 3 THEN IndexFrom(parts[3], "-", 1) ELSE 0
      patchPart == IF Len(parts) >= 3 THEN SubSeq(parts[3], 1, hyphenIndex - 1) ELSE <<>>
      preRelease == IF Len(parts) >= 3
                    THEN SubSeq(parts[3], hyphenIndex + 1, Len(parts[3])) ELSE <<>>
      patch == IF Len(parts) >= 3 THEN Atoi(patchPart) ELSE [ok |-> TRUE, n |-> 0]
  IN IF ~major.ok \/ ~minor.ok \/ ~patch.ok THEN VersionError
     ELSE [ok |-> TRUE, major |-> major.n, minor |-> minor.n, patch |-> patch.n,
           preRelease |-> preRelease]

\* a parser that does not remove the v prefix
parseVersionKeepPrefix(version) ==
  IF version = <<>> THEN VersionError
  ELSE LET m == SemverMatch(version)
       IN IF ~m.matched THEN parseVersionSimple(version)
          ELSE [ok |-> TRUE, major |-> DigitsValue(m.nums[1]),
                minor |-> DigitsValue(m.nums[2]), patch |-> DigitsValue(m.nums[3]),
                preRelease |-> m.pre]

parseVersion(version) ==
  IF version = <<>> THEN VersionError
  ELSE LET v == IF Head(version) = "v" THEN Tail(version) ELSE version
           m == SemverMatch(v)
       IN IF ~m.matched THEN parseVersionSimple(v)
          ELSE [ok |-> TRUE, major |-> DigitsValue(m.nums[1]),
                minor |-> DigitsValue(m.nums[2]), patch |-> DigitsValue(m.nums[3]),
                preRelease |-> m.pre]

Cmp(a, b) == IF a < b THEN -1 ELSE IF a > b THEN 1 ELSE 0

\* a comparison that puts the shorter string first
StrCmpByLength(s, t) ==
  IF Len(s) # Len(t) THEN Cmp(Len(s), Len(t))
  ELSE IF StrLess(s, t) THEN -1 ELSE IF StrLess(t, s) THEN 1 ELSE 0

StrCmp(s, t) == IF StrLess(s, t) THEN -1 ELSE IF StrLess(t, s) THEN 1 ELSE 0

\* a comparator that ranks a release first without looking at the other side
compareVersionsReleaseFirst(v1, v2) ==
  IF v1 = v2 THEN 0
  ELSE LET p1 == parseVersion(v1)
           p2 == parseVersion(v2)
       IN IF ~p1.ok \/ ~p2.ok THEN StrCmp(v1, v2)
          ELSE IF p1.major # p2.major THEN Cmp(p1.major, p2.major)
          ELSE IF p1.minor # p2.minor THEN Cmp(p1.minor, p2.minor)
          ELSE IF p1.patch # p2.patch THEN Cmp(p1.patch, p2.patch)
          ELSE IF p1.preRelease = <<>> THEN 1
          ELSE IF p2.preRelease = <<>> THEN -1
          ELSE StrCmp(p1.preRelease, p2.preRelease)

compareVersions(v1, v2) ==
  IF v1 = v2 THEN 0
  ELSE LET p1 == parseVersion(v1)
           p2 == parseVersion(v2)
       IN IF ~p1.ok \/ ~p2.ok THEN StrCmp(v1, v2)
          ELSE IF p1.major # p2.major THEN Cmp(p1.major, p2.major)
          ELSE IF p1.minor # p2.minor THEN Cmp(p1.minor, p2.minor)
          ELSE IF p1.patch # p2.patch THEN Cmp(p1.patch, p2.patch)
          ELSE IF p1.preRelease = <<>> /\ p2.preRelease # <<>> THEN 1
          ELSE IF p1.preRelease # <<>> /\ p2.preRelease = <<>> THEN -1
          ELSE StrCmp(p1.preRelease, p2.preRelease)

isVersionUpToDate(localVersion, remoteVersion) ==
  compareVersions(localVersion, remoteVersion) >= 0

----------------------------------------------------------------------------
(* Texts the bounded specifications draw from *)

TxtA == <<"a">>
TxtB == <<"b">>
TxtX == <<"x">>
TxtY == <<"y">>
V100 == <<"1", ".", "0", ".", "0">>
V200 == <<"2", ".", "0", ".", "0">>
TxtLocal == <<"l", "o", "c", "a", "l">>
TxtGithub == <<"g", "i", "t", "h", "u", "b">>
TxtDistro == <<"d", "i", "s", "t", "r", "o">>

SourceTypes == {TxtLocal, TxtGithub, TxtDistro}

Separator == Raw(Dashes, 0)

\* the frontmatter line `description: "x\n--\ny"`
MultiLineDescription == KV("description", <<TxtX, Dashes, TxtY>>)

----------------------------------------------------------------------------
(* Names, answers and the values file *)

RECURSIVE TrimLeft(_)
TrimLeft(s) == IF s # <<>> /\ Head(s) = " " THEN TrimLeft(Tail(s)) ELSE s

RECURSIVE TrimRight(_)
TrimRight(s) ==
  IF s # <<>> /\ s[Len(s)] = " " THEN TrimRight(SubSeq(s, 1, Len(s) - 1)) ELSE s

\* strings.TrimSpace on a one-line text
TrimSpace(s) == TrimRight(TrimLeft(s))

LowerOf(c) ==
  IF c \in Upper THEN AsciiHigh[CharCode(c) - 64] ELSE c

\* strings.ToLower
ToLower(s) == [i \in 1..Len(s) |-> LowerOf(s[i])]

\* strings.Contains
Contains(s, sub) ==
  \E i \in 1..(Len(s) - Len(sub) + 1) : SubSeq(s, i, i + Len(sub) - 1) = sub

MaxNameLen == 100

ValidatePromptName(name) ==
  /\ name # <<>>
  /\ ByteLen(name) <= MaxNameLen
  /\ ~Contains(name, <<".", ".">>)
  /\ ~Contains(name, <<"/">>)
  /\ ~Contains(name, <<"\\">>)
  /\ \A i \in 1..Len(name) : name[i] \notin ControlChars

\* strings.Join(lines, "\n") of a string held as its lines
RECURSIVE JoinLines(_)
JoinLines(str) ==
  IF Len(str) = 1 THEN str[1]
  ELSE str[1] \o <<"\n">> \o JoinLines(Tail(str))

Put(m, k, v) == [x \in (DOMAIN m) \cup {k} |-> IF x = k THEN v ELSE m[x]]

NoValues == <<>>

\* ExecuteWizardWithReader: one scanner line per variable, in order
RECURSIVE WizardLoop(_, _, _, _)
WizardLoop(variables, reader, i, values) ==
  IF i > Len(variables) THEN [ok |-> TRUE, values |-> values]
  ELSE LET v == variables[i]
           response == IF i <= Len(reader) THEN TrimSpace(reader[i]) ELSE EmptyText
       IN IF v.required /\ response = EmptyText
          THEN [ok |-> FALSE, values |-> NoValues]
          ELSE WizardLoop(variables, reader, i + 1, Put(values, v.id, response))

ExecuteWizardWithReader(variables, reader) == WizardLoop(variables, reader, 1, NoValues)

\* ExecuteWizardWithPrefills: an empty answer takes the stored value
RECURSIVE PrefillLoop(_, _, _, _, _)
PrefillLoop(variables, prefill, reader, i, values) ==
  IF i > Len(variables) THEN [ok |-> TRUE, values |-> values]
  ELSE LET v == variables[i]
           response == IF i <= Len(reader) THEN TrimSpace(reader[i]) ELSE EmptyText
           default == IF v.id \in DOMAIN prefill THEN prefill[v.id] ELSE EmptyText
           answer == IF response # EmptyText THEN response ELSE default
       IN IF v.required /\ answer = EmptyText
          THEN [ok |-> FALSE, values |-> NoValues]
          ELSE PrefillLoop(variables, prefill, reader, i + 1, Put(values, v.id, answer))

\* a pre-filled wizard that forgets the stored values
ExecuteWizardIgnoringPrefills(variables, prefill, reader) ==
  ExecuteWizardWithReader(variables, reader)

ExecuteWizardWithPrefills(variables, prefill, reader) ==
  PrefillLoop(variables, prefill, reader, 1, NoValues)

ValueLine(id, value) == [key |-> "=", val |-> <<id, value>>, pad |-> 0]

EmptyMapLine == Raw(<<"{", "}">>, 0)

MinText(S) == CHOOSE x \in S : \A y \in S : y = x \/ StrLess(x, y)

\* yaml.Marshal(values) of a map[string]string: one `id: value` line per key, in key order
RECURSIVE MarshalFrom(_, _)
MarshalFrom(values, ids) ==
  IF ids = {} THEN <<>>
  ELSE LET k == MinText(ids) IN
       <<ValueLine(k, values[k])>> \o MarshalFrom(values, ids \ {k})

yamlMarshalValues(values) ==
  IF DOMAIN values = {} THEN <<EmptyMapLine>> ELSE MarshalFrom(values, DOMAIN values)

\* yaml.Unmarshal(content, &values) into a map[string]string
RECURSIVE ValuesDecode(_, _, _)
ValuesDecode(lines, i, values) ==
  IF i > Len(lines) THEN [ok |-> TRUE, values |-> values]
  ELSE LET ln == lines[i] IN
    IF IsBlank(ln) \/ (ln = EmptyMapLine /\ Len(lines) = 1)
      THEN ValuesDecode(lines, i + 1, values)
    ELSE IF ln.key # "=" \/ ln.pad # 0 \/ ln.val[1] \in DOMAIN values
      THEN [ok |-> FALSE, values |-> NoValues]
    ELSE ValuesDecode(lines, i + 1, Put(values, ln.val[1], ln.val[2]))

yamlUnmarshalValues(lines) == ValuesDecode(lines, 1, NoValues)

----------------------------------------------------------------------------
(* The file system *)

Exts == {"mprompt", "var", "backup"}

\* filepath.Join(".marvai", name + ".mprompt"), name + ".var", and the
\* artifact's sibling name + ".mprompt.backup"
Path(name, ext) == [name |-> name, ext |-> ext]

NoFile == [exists |-> FALSE, data |-> <<>>]

File(data) == [exists |-> TRUE, data |-> data]

\* what a failed write can leave at the target: nothing touched, or the file
\* truncated and a proper prefix of the data written
FailedWrites(old, data) ==
  {old} \cup {File(SubSeq(data, 1, k)) : k \in 0..(Len(data) - 1)}

\* afero.WriteFile(fs, path, data, 0644), the successful case
WriteFile(fsys, path, data) == [fsys EXCEPT ![path] = File(data)]

\* a copy that creates the destination and copies nothing
copyFileCreateOnly(fsys, src, dst) == [fsys EXCEPT ![dst] = File(<<>>)]

\* copyFileAfero(fs, src, dst), the successful case: dst holds the bytes of src
copyFileAfero(fsys, src, dst) == [fsys EXCEPT ![dst] = File(fsys[src].data)]

\* the states copyFileAfero can leave when it returns an error
copyFileFailures(fsys, src, dst) ==
  {[fsys EXCEPT ![dst] = f] : f \in FailedWrites(fsys[dst], fsys[src].data)}

\* fs.Remove(path)
Remove(fsys, path) == [fsys EXCEPT ![path] = NoFile]

\* getInstalledPromptVersion
getInstalledPromptVersion(fsys, path) ==
  LET p == ParseMPromptContent(fsys[path].data) IN
  IF p.ok THEN JoinLines(p.data.Frontmatter.version) ELSE EmptyText

\* loadVarFile, with the caller's fallback to an empty map
loadVarFile(fsys, path) ==
  LET v == yamlUnmarshalValues(fsys[path].data) IN
  IF fsys[path].exists /\ v.ok THEN v.values ELSE NoValues

----------------------------------------------------------------------------
(* The registry and the downloads the commands can meet *)

TxtF == <<"f">>
TxtD == <<"d">>
TxtYes == <<"y", "e", "s">>
TxtYesUpper == <<"Y", "E", "S">>
TxtNo == <<"n", "o">>
TxtProto == <<"_", "_", "p", "r", "o", "t", "o", "_", "_">>

Template1 == <<Raw(TxtX, 0)>>
Template2 == <<Raw(TxtY, 0)>>

WizardX == <<KV("- id", Str(TxtX)), Sub("required", Str(TextTrue))>>

\* name a, version 1.0.0, one required variable
ContentA1 ==
  <<KV("name", Str(TxtA)), KV("version", Str(V100)), Separator>> \o WizardX
  \o <<Separator>> \o Template1

\* name a, version 2.0.0, one required variable, another template
ContentA2 ==
  <<KV("name", Str(TxtA)), KV("version", Str(V200)), Separator>> \o WizardX
  \o <<Separator>> \o Template2

\* no frontmatter, no variables
ContentPlain == <<Separator, Separator>> \o Template1

\* the frontmatter names another prompt; no variables
ContentB == <<KV("name", Str(TxtB)), Separator, Separator>> \o Template2

\* a variable id on the deny-list: does not parse
ContentBad ==
  <<KV("name", Str(TxtA)), Separator, KV("- id", Str(TxtProto)), Separator>> \o Template1

Contents == {ContentA1, ContentA2, ContentPlain, ContentB, ContentBad}

PromptEntry(name, description, version, file, sha256) ==
  [Name |-> name, Description |-> description, Version |-> version,
   File |-> file, SHA256 |-> sha256]

NoEntry == PromptEntry(EmptyText, EmptyText, EmptyText, EmptyText, NoHash)

RegistryVersions == {EmptyText, V100, V200}

RegistryHashes == {NoHash, HashOf(Template1, TRUE)}

\* the manifests fetchRemotePrompts can return
Registries ==
  {<<>>} \cup
  {<<PromptEntry(TxtA, TxtD, v, TxtF, h)>> : v \in RegistryVersions, h \in RegistryHashes}

\* client.Get and io.ReadAll of the .mprompt file
Downloads ==
  {[kind |-> k, body |-> <<>>] : k \in {"error", "status", "too large"}}
  \cup {[kind |-> "ok", body |-> c] : c \in Contents}

CallerNames == {TxtA, TxtB, <<".", ".">>}

FileNames == {TxtA, TxtB}

Paths == {Path(n, e) : n \in FileNames, e \in Exts}

Responses == {TxtYes, TxtYesUpper, TxtNo, EmptyText}

\* the lines the wizard's reader can deliver
Readers == {<<>>, <<EmptyText>>, <<TxtY>>, <<<<" ">>>>}

MaxOps == 2

\* a comparison with "yes" that forgets to normalise the answer
IsYesExact(response) == response = TxtYes

\* strings.ToLower(strings.TrimSpace(response)) == "yes"
IsYes(response) == ToLower(TrimSpace(response)) = TxtYes

RECURSIVE FindFrom(_, _, _)
FindFrom(prompts, name, i) ==
  IF i > Len(prompts) THEN [found |-> FALSE, entry |-> NoEntry]
  ELSE IF ToLower(prompts[i].Name) = name
          \/ Contains(ToLower(prompts[i].Description), name)
       THEN [found |-> TRUE, entry |-> prompts[i]]
       ELSE FindFrom(prompts, name, i + 1)

findPromptByName(prompts, name) == FindFrom(prompts, ToLower(TrimSpace(name)), 1)

\* a verification that parses and never compares the checksum
VerifyParseOnly(bytes, expectedHash) ==
  IF ParseMPromptContent(bytes).ok THEN "ok" ELSE "parse"

\* a verification that hashes the downloaded bytes instead of the template
VerifyWholeFile(bytes, expectedHash) ==
  IF ~ParseMPromptContent(bytes).ok THEN "parse"
  ELSE IF ~verifySHA256(bytes, expectedHash) THEN "checksum"
  ELSE "ok"

\* ParseMPromptContent then verifySHA256 of the template, as both commands do
\* with the bytes they downloaded
VerifyDownloaded(bytes, expectedHash) ==
  LET p == ParseMPromptContent(bytes) IN
  IF ~p.ok THEN "parse"
  ELSE IF ~verifySHA256(p.data.Template, expectedHash) THEN "checksum"
  ELSE "ok"

\* the install's file name: the frontmatter name if it is a valid prompt name
FinalName(data, name) ==
  LET fmName == JoinLines(data.Frontmatter.name) IN
  IF fmName # EmptyText /\ ValidatePromptName(fmName) THEN fmName ELSE name

\* an existence check that looks at the values file only
AlreadyInstalledValuesOnly(mpromptExists, varExists) == varExists

\* an existence check that wants both files
AlreadyInstalledBoth(mpromptExists, varExists) == mpromptExists /\ varExists

\* the install's check at the derived name: either file is enough
AlreadyInstalled(mpromptExists, varExists) == mpromptExists \/ varExists

----------------------------------------------------------------------------
(* The commands: InstallMPromptByNameFromRepo and UpdatePrompt *)

mpromptFile(name) == Path(name, "mprompt")
varFile(name) == Path(name, "var")

\* a backup path built with the suffix of the values file
backupOverValuesFile(name) == Path(name, "var")

backupMpromptFile(name) == Path(name, "backup")

PureIdle ==
  /\ arg = <<>>
  /\ res = <<>>
  /\ stage = "none"

CmdInit ==
  /\ fs = [p \in Paths |-> NoFile]
  /\ marvaiDir = FALSE
  /\ op = "none"
  /\ pc = "idle"
  /\ promptName = EmptyText
  /\ promptEntry = NoEntry
  /\ newContent = <<>>
  /\ existingValues = NoValues
  /\ out = {}
  /\ ret = ""
  /\ hist = [fs0 |-> [p \in Paths |-> NoFile], dir0 |-> FALSE, events |-> {},
             rollbackResponse |-> EmptyText]
  /\ ops = 0

Init == PureIdle /\ CmdInit

\* the command returns: result is "nil" or the error
Return(result, messages, events) ==
  /\ pc' = "done"
  /\ ret' = result
  /\ out' = out \cup messages
  /\ hist' = [hist EXCEPT !.events = @ \cup events]

\* the same after fmt.Scanln(&rollbackResponse)
ReturnAnswered(result, messages, events, response) ==
  /\ pc' = "done"
  /\ ret' = result
  /\ out' = out \cup messages
  /\ hist' = [hist EXCEPT !.events = @ \cup events, !.rollbackResponse = response]

Goto(label) ==
  /\ pc' = label
  /\ UNCHANGED <<ret, out, hist>>

Frame == UNCHANGED <<pureVars, op, promptName, ops>>

Start ==
  /\ pc = "idle"
  /\ ops < MaxOps
  /\ \E o \in {"install", "update"}, n \in CallerNames :
       /\ op' = o
       /\ promptName' = n
  /\ pc' = "validate"
  /\ ops' = ops + 1
  /\ hist' = [fs0 |-> fs, dir0 |-> marvaiDir, events |-> {}, rollbackResponse |-> EmptyText]
  /\ UNCHANGED <<pureVars, fs, marvaiDir, promptEntry, newContent, existingValues, out, ret>>

\* the caller has the result; the locals are gone
Finish ==
  /\ pc = "done"
  /\ pc' = "idle"
  /\ op' = "none"
  /\ promptName' = EmptyText
  /\ promptEntry' = NoEntry
  /\ newContent' = <<>>
  /\ existingValues' = NoValues
  /\ out' = {}
  /\ ret' = ""
  /\ hist' = [fs0 |-> fs, dir0 |-> marvaiDir, events |-> {}, rollbackResponse |-> EmptyText]
  /\ UNCHANGED <<pureVars, fs, marvaiDir, ops>>

\* InstallMPromptByNameFromRepo: the git check and the name check
InstValidate ==
  /\ op = "install" /\ pc = "validate"
  /\ \E git \in BOOLEAN :
       IF ~git THEN Return("not a git repository", {}, {})
       ELSE IF ~ValidatePromptName(promptName) THEN Return("invalid prompt name", {}, {})
       ELSE Goto("registry")
  /\ UNCHANGED <<fs, marvaiDir, promptEntry, newContent, existingValues>>
  /\ Frame

\* fetchRemotePrompts and findPromptByName
InstRegistry ==
  /\ op = "install" /\ pc = "registry"
  /\ \E fetched \in BOOLEAN, prompts \in Registries :
       LET f == findPromptByName(prompts, promptName) IN
       IF ~fetched THEN Return("exit 1", {}, {}) /\ UNCHANGED promptEntry
       ELSE IF ~f.found THEN Return("not found in remote prompts", {}, {})
                             /\ UNCHANGED promptEntry
       ELSE Goto("download") /\ promptEntry' = f.entry
  /\ UNCHANGED <<fs, marvaiDir, newContent, existingValues>>
  /\ Frame

\* download, parse, verify the checksum, derive the name, check for an installation
InstDownload ==
  /\ op = "install" /\ pc = "download"
  /\ \E d \in Downloads :
       LET v == VerifyDownloaded(d.body, promptEntry.SHA256)
           data == ParseMPromptContent(d.body).data
           finalName == FinalName(data, promptName)
           mpromptExists == fs[mpromptFile(finalName)].exists
           varExists == fs[varFile(finalName)].exists
       IN IF d.kind # "ok" THEN Return("download " \o d.kind, {}, {}) /\ UNCHANGED newContent
          ELSE /\ newContent' = d.body
               /\ IF v = "parse" THEN Return("failed to parse", {}, {"downloaded"})
                  ELSE IF v = "checksum"
                    THEN Return("SHA256 verification failed", {}, {"downloaded"})
                  ELSE IF AlreadyInstalled(mpromptExists, varExists)
                    THEN Return("nil", {"already installed"}, {"downloaded", "verified"})
                  ELSE /\ pc' = "confirm"
                       /\ hist' = [hist EXCEPT !.events = @ \cup {"downloaded", "verified"}]
                       /\ UNCHANGED <<ret, out>>
  /\ UNCHANGED <<fs, marvaiDir, promptEntry, existingValues>>
  /\ Frame

\* the confirmation, MkdirAll, the source injection and the artifact write
InstConfirm ==
  /\ op = "install" /\ pc = "confirm"
  /\ \E response \in Responses, mkdirOk \in BOOLEAN, writeOk \in BOOLEAN :
       LET data == ParseMPromptContent(newContent).data
           target == mpromptFile(FinalName(data, promptName))
           inj == injectSourceIntoMPrompt(newContent, TxtDistro)
       IN IF ~IsYes(response)
            THEN Return("nil", {"Installation cancelled."}, {}) /\ UNCHANGED <<fs, marvaiDir>>
          ELSE IF ~mkdirOk
            THEN Return("error creating .marvai directory", {}, {})
                 /\ UNCHANGED <<fs, marvaiDir>>
          ELSE IF ~inj.ok
            THEN Return("error injecting source", {}, {})
                 /\ marvaiDir' = TRUE /\ UNCHANGED fs
          ELSE IF ~writeOk
            THEN /\ Return("error writing .mprompt file", {}, {"write failed"})
                 /\ marvaiDir' = TRUE
                 /\ \E f \in FailedWrites(fs[target], inj.content) :
                      fs' = [fs EXCEPT ![target] = f]
          ELSE /\ marvaiDir' = TRUE
               /\ fs' = WriteFile(fs, target, inj.content)
               /\ IF Len(data.Variables) > 0 THEN Goto("wizard")
                  ELSE Return("nil", {"Installed"}, {})
  /\ UNCHANGED <<promptEntry, newContent, existingValues>>
  /\ Frame

\* ExecuteWizard and the write of the .var file
InstWizard ==
  /\ op = "install" /\ pc = "wizard"
  /\ \E reader \in Readers, writeOk \in BOOLEAN :
       LET data == ParseMPromptContent(newContent).data
           target == varFile(FinalName(data, promptName))
           w == ExecuteWizardWithReader(data.Variables, reader)
           varData == yamlMarshalValues(w.values)
       IN IF ~w.ok THEN Return("variable is required", {}, {"wizard failed"}) /\ UNCHANGED fs
          ELSE IF ~writeOk
            THEN /\ Return("error writing .var file", {}, {"write failed"})
                 /\ \E f \in FailedWrites(fs[target], varData) :
                      fs' = [fs EXCEPT ![target] = f]
          ELSE /\ Return("nil", {"Installed"}, {})
               /\ fs' = WriteFile(fs, target, varData)
  /\ UNCHANGED <<marvaiDir, promptEntry, newContent, existingValues>>
  /\ Frame

\* UpdatePrompt: the name check and the check that the prompt is installed
UpdCheckInstalled ==
  /\ op = "update" /\ pc = "validate"
  /\ IF ~ValidatePromptName(promptName) THEN Return("invalid prompt name", {}, {})
     ELSE IF ~fs[mpromptFile(promptName)].exists THEN Return("not installed", {}, {})
     ELSE Goto("registry")
  /\ UNCHANGED <<fs, marvaiDir, promptEntry, newContent, existingValues>>
  /\ Frame

\* the version check of UpdatePrompt
UpToDate(currentVersion, remoteVersion) ==
  currentVersion # EmptyText /\ isVersionUpToDate(currentVersion, remoteVersion)

\* fetchRemotePrompts, findPromptByName and the version comparison
UpdRegistry ==
  /\ op = "update" /\ pc = "registry"
  /\ \E fetched \in BOOLEAN, prompts \in Registries :
       LET f == findPromptByName(prompts, promptName)
           currentVersion == getInstalledPromptVersion(fs, mpromptFile(promptName))
       IN IF ~fetched THEN Return("error fetching remote prompts", {}, {})
                           /\ UNCHANGED promptEntry
          ELSE IF ~f.found THEN Return("not found in remote registry", {}, {})
                                /\ UNCHANGED promptEntry
          ELSE IF UpToDate(currentVersion, f.entry.Version)
            THEN Return("nil", {"already up to date"}, {"entry found"})
                 /\ promptEntry' = f.entry
          ELSE /\ pc' = "confirm"
               /\ promptEntry' = f.entry
               /\ hist' = [hist EXCEPT !.events = @ \cup {"entry found"}]
               /\ UNCHANGED <<ret, out>>
  /\ UNCHANGED <<fs, marvaiDir, newContent, existingValues>>
  /\ Frame

\* the confirmation and the load of the existing .var file
UpdConfirm ==
  /\ op = "update" /\ pc = "confirm"
  /\ \E response \in Responses :
       IF ~IsYes(response)
       THEN Return("nil", {"Update cancelled."}, {}) /\ UNCHANGED existingValues
       ELSE Goto("backup") /\ existingValues' = loadVarFile(fs, varFile(promptName))
  /\ UNCHANGED <<fs, marvaiDir, promptEntry, newContent>>
  /\ Frame

\* the backup of the current .mprompt file
UpdBackup ==
  /\ op = "update" /\ pc = "backup"
  /\ \E copyOk \in BOOLEAN :
       IF copyOk
       THEN /\ fs' = copyFileAfero(fs, mpromptFile(promptName), backupMpromptFile(promptName))
            /\ pc' = "download"
            /\ hist' = [hist EXCEPT !.events = @ \cup {"backup taken"}]
            /\ UNCHANGED <<ret, out>>
       ELSE /\ fs' \in copyFileFailures(fs, mpromptFile(promptName),
                                        backupMpromptFile(promptName))
            /\ Return("error backing up .mprompt file", {}, {})
  /\ UNCHANGED <<marvaiDir, promptEntry, newContent, existingValues>>
  /\ Frame

\* download, parse and verify the new version
UpdDownload ==
  /\ op = "update" /\ pc = "download"
  /\ \E d \in Downloads :
       LET v == VerifyDownloaded(d.body, promptEntry.SHA256) IN
       IF d.kind # "ok" THEN Return("download " \o d.kind, {}, {}) /\ UNCHANGED newContent
       ELSE /\ newContent' = d.body
            /\ IF v = "parse" THEN Return("error parsing new version", {}, {"downloaded"})
               ELSE IF v = "checksum"
                 THEN Return("SHA256 verification failed", {}, {"downloaded"})
               ELSE /\ pc' = "write"
                    /\ hist' = [hist EXCEPT !.events = @ \cup {"downloaded", "verified"}]
                    /\ UNCHANGED <<ret, out>>
  /\ UNCHANGED <<fs, marvaiDir, promptEntry, existingValues>>
  /\ Frame

\* what UpdatePrompt does when afero.WriteFile has failed, leaving broken at
\* the artifact: restore the backup, remove it; restoreOk is the copy's outcome
RestoreAfterWriteFailure(broken, name, restoreOk) ==
  IF restoreOk
  THEN {Remove(copyFileAfero(broken, backupMpromptFile(name), mpromptFile(name)),
               backupMpromptFile(name))}
  ELSE {Remove(g, backupMpromptFile(name)) :
          g \in copyFileFailures(broken, backupMpromptFile(name), mpromptFile(name))}

\* the source injection and the write of the new artifact; with no variables
\* the backup is removed and the update is complete
UpdWrite ==
  /\ op = "update" /\ pc = "write"
  /\ \E writeOk \in BOOLEAN, restoreOk \in BOOLEAN :
       LET data == ParseMPromptContent(newContent).data
           target == mpromptFile(promptName)
           inj == injectSourceIntoMPrompt(newContent, TxtDistro)
       IN IF ~inj.ok THEN Return("error injecting source", {}, {}) /\ UNCHANGED fs
          ELSE IF ~writeOk
            THEN /\ \E f \in FailedWrites(fs[target], inj.content) :
                      fs' \in RestoreAfterWriteFailure([fs EXCEPT ![target] = f],
                                                       promptName, restoreOk)
                 /\ Return("error installing new version", {},
                           {"write failed",
                            IF restoreOk THEN "restore ok" ELSE "restore failed"})
          ELSE IF Len(data.Variables) > 0
            THEN /\ fs' = WriteFile(fs, target, inj.content)
                 /\ pc' = "wizard"
                 /\ hist' = [hist EXCEPT !.events = @ \cup {"written"}]
                 /\ UNCHANGED <<ret, out>>
          ELSE /\ fs' = Remove(WriteFile(fs, target, inj.content),
                               backupMpromptFile(promptName))
               /\ Return("nil", {"Successfully updated"}, {"written"})
  /\ UNCHANGED <<marvaiDir, promptEntry, newContent, existingValues>>
  /\ Frame

\* the wizard with the stored values as defaults, then saveVarFile and the
\* removal of the backup
UpdWizard ==
  /\ op = "update" /\ pc = "wizard"
  /\ \E reader \in Readers, saveOk \in BOOLEAN :
       LET data == ParseMPromptContent(newContent).data
           target == varFile(promptName)
           w == ExecuteWizardWithPrefills(data.Variables, existingValues, reader)
           varData == yamlMarshalValues(w.values)
       IN IF ~w.ok
          THEN /\ pc' = "rollback"
               /\ out' = out \cup {"Warning: Configuration wizard failed"}
               /\ hist' = [hist EXCEPT !.events = @ \cup {"wizard failed"}]
               /\ UNCHANGED <<fs, ret>>
          ELSE IF ~saveOk
            THEN /\ \E f \in FailedWrites(fs[target], varData) :
                      fs' = Remove([fs EXCEPT ![target] = f], backupMpromptFile(promptName))
                 /\ Return("nil", {"Warning: Could not save new configuration",
                                   "Successfully updated"}, {"save failed"})
          ELSE /\ fs' = Remove(WriteFile(fs, target, varData), backupMpromptFile(promptName))
               /\ Return("nil", {"Successfully updated"}, {})
  /\ UNCHANGED <<marvaiDir, promptEntry, newContent, existingValues>>
  /\ Frame

\* the rollback question after a failed wizard
UpdRollback ==
  /\ op = "update" /\ pc = "rollback"
  /\ \E rollbackResponse \in Responses, restoreOk \in BOOLEAN :
       IF IsYes(rollbackResponse)
       THEN IF restoreOk
            THEN /\ fs' = Remove(copyFileAfero(fs, backupMpromptFile(promptName),
                                               mpromptFile(promptName)),
                                 backupMpromptFile(promptName))
                 /\ ReturnAnswered("update rolled back due to wizard failure",
                                   {"Successfully rolled back"}, {"restore ok"},
                                   rollbackResponse)
            ELSE /\ \E g \in copyFileFailures(fs, backupMpromptFile(promptName),
                                              mpromptFile(promptName)) :
                      fs' = Remove(g, backupMpromptFile(promptName))
                 /\ ReturnAnswered("update rolled back due to wizard failure",
                                   {"Error: Could not rollback"}, {"restore failed"},
                                   rollbackResponse)
       ELSE /\ fs' = Remove(fs, backupMpromptFile(promptName))
            /\ ReturnAnswered("nil", {"updated but may need manual configuration",
                                      "Successfully updated"}, {}, rollbackResponse)
  /\ UNCHANGED <<marvaiDir, promptEntry, newContent, existingValues>>
  /\ Frame

Next ==
  \/ Start
  \/ Finish
  \/ InstValidate
  \/ InstRegistry
  \/ InstDownload
  \/ InstConfirm
  \/ InstWizard
  \/ UpdCheckInstalled
  \/ UpdRegistry
  \/ UpdConfirm
  \/ UpdBackup
  \/ UpdDownload
  \/ UpdWrite
  \/ UpdWizard
  \/ UpdRollback

Spec == Init /\ [][Next]_vars

----------------------------------------------------------------------------
(* Properties of the commands, checked under Spec *)

Did(event) == event \in hist.events

Returned(command) == op = command /\ pc = "done"

Artifact == mpromptFile(promptName)

Backup == backupMpromptFile(promptName)

\* C1: in UpdatePrompt, if writing the new artifact fails after the backup was
\* taken, then on return the artifact's content equals its content before the
\* update started and the .backup file has been deleted.
C1_WriteFailureRestores ==
  (Returned("update") /\ Did("write failed")) =>
    /\ fs[Artifact] = hist.fs0[Artifact]
    /\ ~fs[Backup].exists

\* the name the install settled on, once the download has been verified
InstalledName == FinalName(ParseMPromptContent(newContent).data, promptName)

WasInstalled(name) ==
  hist.fs0[mpromptFile(name)].exists \/ hist.fs0[varFile(name)].exists

\* C2: a fresh install never overwrites an existing installation: no file that
\* existed before the call differs after it, and if the artifact file or the
\* values file existed at the derived name the call writes nothing and returns
\* the non-error "already installed" outcome.
C2_InstallNeverOverwrites ==
  Returned("install") =>
    /\ \A p \in Paths : hist.fs0[p].exists => fs[p] = hist.fs0[p]
    /\ (Did("verified") /\ WasInstalled(InstalledName)) =>
         /\ ret = "nil"
         /\ "already installed" \in out
         /\ fs = hist.fs0
         /\ marvaiDir = hist.dir0

C2_Witness ==
  /\ Returned("install")
  /\ ops = 2
  /\ Did("verified")
  /\ hist.fs0[mpromptFile(InstalledName)].exists
  /\ ~hist.fs0[varFile(InstalledName)].exists

ChecksumMismatch ==
  /\ Did("downloaded")
  /\ ParseMPromptContent(newContent).ok
  /\ promptEntry.SHA256.present
  /\ promptEntry.SHA256.digest # ParseMPromptContent(newContent).data.Template

\* C3: in a fresh install, when the registry entry supplies a checksum and the
\* parsed template body does not match it, the install fails and nothing has
\* been written: no .marvai directory, no artifact file, no values file.
C3_MismatchWritesNothing ==
  (op = "install" /\ ChecksumMismatch) =>
    /\ pc = "done"
    /\ ret = "SHA256 verification failed"
    /\ fs = hist.fs0
    /\ marvaiDir = hist.dir0

C3_Witness ==
  /\ Returned("install")
  /\ ChecksumMismatch
  /\ ~marvaiDir
  /\ ParseMPromptContent(newContent).data.Template = Template2

\* C4: in every update run the artifact file is overwritten only after a full
\* copy of it exists at the .backup path and after the new content has been
\* fetched, parsed and has passed checksum verification.
C4_BackupBeforeWrite ==
  [][\A name \in FileNames :
       (op = "update" /\ fs'[mpromptFile(name)] # fs[mpromptFile(name)]) =>
       /\ name = promptName
       /\ fs[Backup] = File(hist.fs0[Artifact].data)
       /\ fs[Artifact] \in {hist.fs0[Artifact],
                            File(injectSourceIntoMPrompt(newContent, TxtDistro).content)}
       /\ Did("backup taken")
       /\ Did("downloaded")
       /\ VerifyDownloaded(newContent, promptEntry.SHA256) = "ok"]_vars

C4_Witness ==
  /\ op = "update"
  /\ Did("written")
  /\ fs[Artifact] # hist.fs0[Artifact]
  /\ fs[Artifact].data = injectSourceIntoMPrompt(newContent, TxtDistro).content

\* C5: when an update fails checksum verification of the fetched content, the
\* rollback logic runs before the error is surfaced: on return the artifact
\* equals its pre-update content and the backup has been deleted.
C5_ChecksumFailureRollsBack ==
  (Returned("update") /\ ChecksumMismatch) =>
    /\ fs[Artifact] = hist.fs0[Artifact]
    /\ ~fs[Backup].exists

YesAnswers == {TxtYes, TxtYesUpper}

NewArtifact == File(injectSourceIntoMPrompt(newContent, TxtDistro).content)

\* C6 as claimed: after a failed wizard, answering yes restores the artifact
\* from the backup and UpdatePrompt returns a failure; any other answer keeps
\* the new artifact and the run ends with the manual-configuration notice.
C6_RollbackChoice ==
  (Returned("update") /\ Did("wizard failed")) =>
    IF hist.rollbackResponse \in YesAnswers
    THEN /\ fs[Artifact] = hist.fs0[Artifact]
         /\ ret = "update rolled back due to wizard failure"
    ELSE /\ fs[Artifact] = NewArtifact
         /\ ret = "nil"
         /\ "updated but may need manual configuration" \in out

\* C6 amended: answering yes copies the backup over the artifact and returns a
\* failure; the artifact is restored when that copy succeeds, and when it
\* fails "Could not rollback" is printed; any other answer keeps the new
\* artifact and the run ends with the manual-configuration notice.
C6_RollbackChoiceAttempted ==
  (Returned("update") /\ Did("wizard failed")) =>
    IF hist.rollbackResponse \in YesAnswers
    THEN /\ ret = "update rolled back due to wizard failure"
         /\ \/ /\ Did("restore ok")
               /\ fs[Artifact] = hist.fs0[Artifact]
               /\ "Successfully rolled back" \in out
            \/ /\ Did("restore failed")
               /\ "Error: Could not rollback" \in out
               /\ "Successfully rolled back" \notin out
    ELSE /\ fs[Artifact] = NewArtifact
         /\ ret = "nil"
         /\ "updated but may need manual configuration" \in out

C6_Witness ==
  /\ Returned("update")
  /\ Did("wizard failed")
  /\ hist.rollbackResponse = TxtYesUpper
  /\ Did("restore ok")
  /\ fs[Artifact] = hist.fs0[Artifact]
  /\ NewArtifact # hist.fs0[Artifact]

\* C7: if restoring the artifact from the backup fails during an update
\* rollback, in the write-failure path or in the wizard-failure path, the
\* rollback failure is reported to the user.
C7_RollbackFailureReported ==
  (Returned("update") /\ Did("restore failed")) => "Error: Could not rollback" \in out

InstalledVersion == getInstalledPromptVersion(hist.fs0, Artifact)

\* C8: whenever isVersionUpToDate(installedVersion, remoteVersion) holds, also
\* when both versions are empty, the update stops without asking for
\* confirmation, taking a backup or writing any file.
C8_UpToDateStops ==
  (op = "update" /\ Did("entry found")
     /\ isVersionUpToDate(InstalledVersion, promptEntry.Version)) =>
    /\ pc = "done"
    /\ ret = "nil"
    /\ "already up to date" \in out
    /\ fs = hist.fs0


\* C25: every UpdatePrompt run that returns after the backup was taken,
\* successfully or with any error, leaves no .backup file behind.
C25_NoBackupLeft ==
  (Returned("update") /\ Did("backup taken")) => ~fs[Backup].exists

\* the same for the runs that reached the write of the new artifact
C25_NoBackupLeftAfterWrite ==
  (Returned("update") /\ (Did("written") \/ Did("write failed"))) => ~fs[Backup].exists

FreshInstallDone == Returned("install") /\ ret = "nil" /\ "Installed" \in out

\* what UpdatePrompt(name) requires of the file system to go past its check
\* that the prompt is installed
UpdateFinds(name) == ValidatePromptName(name) /\ fs[mpromptFile(name)].exists

\* C26: after a fresh install requested under name n has succeeded,
\* UpdatePrompt(n) finds the prompt installed: the artifact file the install
\* wrote is the file the update looks up for n.
C26_UpdateFindsInstalled ==
  FreshInstallDone =>
    /\ UpdateFinds(promptName)
    /\ mpromptFile(InstalledName) = mpromptFile(promptName)

\* the install is found under the name it derived
C26_UpdateFindsDerivedName == FreshInstallDone => UpdateFinds(InstalledName)

\* the contents saveVarFile can leave after a pre-filled wizard that succeeded
SavedValues(old) ==
  UNION { LET w == ExecuteWizardWithPrefills(ParseMPromptContent(newContent).data.Variables,
                                             existingValues, reader)
          IN IF w.ok THEN {File(yamlMarshalValues(w.values))}
                          \cup FailedWrites(old, yamlMarshalValues(w.values))
             ELSE {}
        : reader \in Readers }

C27_ValuesFrame_State ==
  \A name \in FileNames :
    (op = "update" /\ fs[varFile(name)] # hist.fs0[varFile(name)]) =>
      /\ name = promptName
      /\ Returned("update")
      /\ ret = "nil"
      /\ Did("written")
      /\ ~Did("wizard failed")

C27_ValuesFrame_Step ==
  \A name \in FileNames :
    (op = "update" /\ fs'[varFile(name)] # fs[varFile(name)]) =>
      /\ name = promptName
      /\ pc = "wizard"
      /\ fs'[varFile(name)] \in SavedValues(fs[varFile(name)])

\* C27: UpdatePrompt modifies the values file only after the pre-filled
\* wizard has succeeded; on every other path the values file is identical to
\* its content before the call.
C27_ValuesFrame == [](C27_ValuesFrame_State) /\ [][C27_ValuesFrame_Step]_vars

C27_Witness ==
  /\ Returned("update")
  /\ Did("written")
  /\ ~hist.fs0[varFile(promptName)].exists
  /\ fs[varFile(promptName)].exists
  /\ ~fs[Backup].exists

\* a rolled-back update has left the values file as it was
C27_WitnessRolledBack ==
  /\ Returned("update")
  /\ Did("wizard failed")
  /\ Did("restore ok")
  /\ fs[varFile(promptName)] = hist.fs0[varFile(promptName)]

InstalledArtifact == mpromptFile(InstalledName)

InstalledValues == varFile(InstalledName)

\* the install started with an artifact at its derived name and no values file
LeftWithoutValues ==
  /\ op = "install"
  /\ Did("verified")
  /\ hist.fs0[InstalledArtifact].exists
  /\ ~hist.fs0[InstalledValues].exists

\* C28: if the wizard fails during a fresh install, the artifact file already
\* written stays in place and no values file is written, so a retry of the
\* same install reports "already installed" and never runs the wizard again.
C28_WizardFailureKeepsArtifact ==
  /\ (Returned("install") /\ Did("wizard failed")) =>
       /\ ret # "nil"
       /\ fs[InstalledArtifact] = NewArtifact
       /\ ~hist.fs0[InstalledArtifact].exists
       /\ ~fs[InstalledValues].exists
  /\ LeftWithoutValues =>
       /\ pc = "done"
       /\ ret = "nil"
       /\ "already installed" \in out
       /\ ~Did("wizard failed")
       /\ fs = hist.fs0
  /\ (op = "install" /\ pc = "wizard") =>
       /\ ~hist.fs0[InstalledArtifact].exists
       /\ fs[InstalledArtifact] = NewArtifact

\* the retry: the artifact holds variables, no values file, "already installed"
C28_Witness ==
  /\ Returned("install")
  /\ ops = 2
  /\ LeftWithoutValues
  /\ fs[InstalledArtifact] = NewArtifact
  /\ Len(ParseMPromptContent(newContent).data.Variables) > 0
  /\ "already installed" \in out

C28_WitnessFailure ==
  /\ Returned("install")
  /\ Did("wizard failed")
  /\ fs[InstalledArtifact].exists
  /\ ~fs[InstalledValues].exists

----------------------------------------------------------------------------
(* Specification SpecInject: injectSourceIntoMPrompt on bounded contents *)

MaxInjectLines == 4

InjectLines ==
  { Separator, Raw(Dashes, 1), Raw(TxtX, 0), Raw(EmptyText, 0),
    KV("name", Str(TxtA)), KV("version", Str(V100)), KV("source", Str(TxtLocal)),
    KV("file", Str(TxtB)), MultiLineDescription,
    KV("- id", Str(TxtX)), Sub("required", Str(TextTrue)) }

RECURSIVE SeqsUpTo(_, _)
SeqsUpTo(S, n) ==
  IF n = 0 THEN {<<>>}
  ELSE LET shorter == SeqsUpTo(S, n - 1) IN
       shorter \cup {Append(q, x) : q \in shorter, x \in S}

InjectInit ==
  /\ arg \in [content : SeqsUpTo(InjectLines, MaxInjectLines), sourceType : SourceTypes]
  /\ res = [ok |-> FALSE, content |-> <<>>]
  /\ stage = "in"
  /\ CmdInit

Inject ==
  /\ stage = "in"
  /\ res' = injectSourceIntoMPrompt(arg.content, arg.sourceType)
  /\ stage' = "out"
  /\ UNCHANGED <<arg, cmdVars>>

InjectNext == Inject

SpecInject == InjectInit /\ [][InjectNext]_vars

SameOtherFields(f, g) ==
  /\ f.name = g.name
  /\ f.description = g.description
  /\ f.author = g.author
  /\ f.version = g.version
  /\ f.file = g.file

FromFirstSeparator(content) ==
  SubSeq(content, FirstSeparator(content, 1), Len(content))

\* C9: injectSourceIntoMPrompt changes only the frontmatter source field: the
\* result parses to the same name, description, author, version and file as
\* the input, and the lines from the input's first separator onward are kept.
C9_InjectPreserves ==
  (stage = "out" /\ res.ok) =>
    LET p == ParseMPromptContent(arg.content)
        q == ParseMPromptContent(res.content)
    IN /\ q.ok = p.ok
       /\ p.ok => SameOtherFields(p.data.Frontmatter, q.data.Frontmatter)
       /\ p.ok => q.data.Frontmatter.source = Str(arg.sourceType)
       /\ FromFirstSeparator(res.content) = FromFirstSeparator(arg.content)

----------------------------------------------------------------------------
(* Specification SpecChecksum: the verification of two downloaded contents
   against one expected checksum *)

MaxChecksumLines == 3

ChecksumLines ==
  { Separator, Raw(TxtX, 0), Raw(TxtY, 0), Raw(EmptyText, 0),
    KV("name", Str(TxtA)), KV("source", Str(TxtLocal)), KV("- id", Str(TxtX)) }

\* contents with a frontmatter, a wizard section and a template of their own
ChecksumOthers ==
  { fm \o <<Separator>> \o wz \o <<Separator>> \o tpl :
      fm \in {<<>>, <<KV("name", Str(TxtA))>>,
              <<KV("name", Str(TxtB)), KV("source", Str(TxtGithub))>>},
      wz \in {<<>>, WizardX, <<KV("- id", Str(TxtProto))>>},
      tpl \in {<<>>, Template1, Template2} }

\* the same content after the source injection
Injected(content) ==
  {injectSourceIntoMPrompt(content, t).content : t \in SourceTypes}

ExpectedHashes ==
  { NoHash, HashOf(Template1, FALSE), HashOf(Template1, TRUE), HashOf(Template2, FALSE),
    HashOf(ContentPlain, FALSE) }

ChecksumInit ==
  /\ \E first \in SeqsUpTo(ChecksumLines, MaxChecksumLines) :
       arg \in [first : {first},
                second : ChecksumOthers \cup Injected(first),
                expectedHash : ExpectedHashes]
  /\ res = <<>>
  /\ stage = "in"
  /\ CmdInit

Checksum ==
  /\ stage = "in"
  /\ res' = <<VerifyDownloaded(arg.first, arg.expectedHash),
              VerifyDownloaded(arg.second, arg.expectedHash)>>
  /\ stage' = "out"
  /\ UNCHANGED <<arg, cmdVars>>

ChecksumNext == Checksum

SpecChecksum == ChecksumInit /\ [][ChecksumNext]_vars

SameTemplate ==
  /\ ParseMPromptContent(arg.first).ok
  /\ ParseMPromptContent(arg.second).ok
  /\ ParseMPromptContent(arg.first).data.Template
       = ParseMPromptContent(arg.second).data.Template

\* C10: the outcome of the checksum verification depends only on the parsed
\* template body: two contents that parse to the same template get the same
\* accept or reject result for every expected checksum.
C10_ChecksumOnlyTemplate ==
  (stage = "out" /\ SameTemplate) => res[1] = res[2]

C10_Witness ==
  /\ stage = "out"
  /\ SameTemplate
  /\ arg.first = ContentPlain
  /\ ParseMPromptContent(arg.second).data.Frontmatter.source = Str(TxtGithub)
  /\ ParseMPromptContent(arg.second).data.Variables # <<>>
  /\ arg.expectedHash = HashOf(Template1, TRUE)
  /\ res = <<"ok", "ok">>

C10_WitnessReject ==
  /\ stage = "out"
  /\ SameTemplate
  /\ arg.first # arg.second
  /\ res = <<"checksum", "checksum">>

----------------------------------------------------------------------------
(* Specification SpecVersion: parseVersion and compareVersions on bounded
   version strings *)

MaxVersionLen == 4

VersionChars == {"1", "2", ".", "-", "+", "a"}

\* versions longer than the enumerated ones: full versions, the v prefix,
\* pre-releases, build metadata, two-digit numbers, non-numeric components
VersionTexts ==
  { <<>>,
    <<"v">>,
    <<"1">>,
    <<"1", ".", "2">>,
    <<"1", ".", "2", ".", "3">>,
    <<"v", "1", ".", "2", ".", "3">>,
    <<"v", "1", ".", "2", ".", "3", "-", "b", "e", "t", "a", ".", "1">>,
    <<"1", ".", "2", ".", "3", "-", "b", "e", "t", "a", ".", "1">>,
    <<"1", ".", "2", ".", "3", "-", "a">>,
    <<"1", ".", "2", ".", "3", "-", "b">>,
    <<"1", ".", "2", ".", "3", "+", "a">>,
    <<"1", ".", "2", ".", "3", "-", "a", "+", "b">>,
    <<"1", ".", "0", ".", "0">>,
    <<"1", ".", "2", ".", "0">>,
    <<"1", ".", "2", ".", "9">>,
    <<"1", ".", "2", ".", "1", "0">>,
    <<"-", "1", ".", "2">>,
    <<"1", ".", "2", "+", "a">>,
    <<"1", ".", "2", ".", "3", "-", "a", "+", "b", "+", "c">>,
    <<"1", ".", "2", ".", "x">>,
    <<"x", ".", "2", ".", "3">>,
    <<"1", ".", "x", ".", "3">>,
    <<"1", ".", "2", ".", "3", ".", "4">> }

\* the version up to its build metadata
StripBuild(version) == SubSeq(version, 1, IndexFrom(version, "+", 1) - 1)

\* the same version with another build suffix, or with none
BuildVariants(version) ==
  {StripBuild(version), StripBuild(version) \o <<"+", "a">>,
   StripBuild(version) \o <<"+", "b">>}

VersionInit ==
  /\ \E v1 \in SeqsUpTo(VersionChars, MaxVersionLen) \cup VersionTexts :
       arg \in [v1 : {v1}, v2 : VersionTexts \cup BuildVariants(v1) \cup {v1, <<"v">> \o v1}]
  /\ res = <<>>
  /\ stage = "in"
  /\ CmdInit

VersionParse ==
  /\ stage = "in"
  /\ res' = [p1 |-> parseVersion(arg.v1), p2 |-> parseVersion(arg.v2)]
  /\ stage' = "parsed"
  /\ UNCHANGED <<arg, cmdVars>>

VersionCompare ==
  /\ stage = "parsed"
  /\ res' = [p1 |-> res.p1, p2 |-> res.p2,
             c12 |-> compareVersions(arg.v1, arg.v2),
             c21 |-> compareVersions(arg.v2, arg.v1),
             c11 |-> compareVersions(arg.v1, arg.v1),
             upToDate |-> isVersionUpToDate(arg.v1, arg.v2)]
  /\ stage' = "out"
  /\ UNCHANGED <<arg, cmdVars>>

VersionNext == VersionParse \/ VersionCompare

SpecVersion == VersionInit /\ [][VersionNext]_vars

Compared == stage = "out"

BothValid == res.p1.ok /\ res.p2.ok

SameTriple ==
  <<res.p1.major, res.p1.minor, res.p1.patch>> = <<res.p2.major, res.p2.minor, res.p2.patch>>

\* C11: for all valid version strings x and y, compareVersions(x, y) is
\* -compareVersions(y, x), and compareVersions(x, x) is 0.
C11_Antisymmetric ==
  (Compared /\ BothValid) => (res.c12 = 0 - res.c21 /\ res.c11 = 0)

C11_Witness ==
  /\ Compared
  /\ BothValid
  /\ arg.v1 # arg.v2
  /\ SameTriple
  /\ res.p1.preRelease = <<>>
  /\ res.p2.preRelease # <<>>
  /\ res.c12 = 1
  /\ res.c21 = -1

\* the reference ordering of two strings: the bytes at the first position
\* where they differ, a proper prefix being smaller
RefStringOrder(s, t) ==
  LET n == IF Len(s) < Len(t) THEN Len(s) ELSE Len(t)
      diff == {i \in 1..n : s[i] # t[i]}
      first == CHOOSE i \in diff : \A j \in diff : i <= j
  IN IF diff = {} THEN Cmp(Len(s), Len(t))
     ELSE Cmp(CharCode(s[first]), CharCode(t[first]))

\* the reference ordering of two parsed versions
RefVersionOrder(p, q) ==
  LET a == <<p.major, p.minor, p.patch>>
      b == <<q.major, q.minor, q.patch>>
      diff == {i \in 1..3 : a[i] # b[i]}
      first == CHOOSE i \in diff : \A j \in diff : i <= j
  IN IF diff # {} THEN Cmp(a[first], b[first])
     ELSE IF p.preRelease = q.preRelease THEN 0
     ELSE IF p.preRelease = <<>> THEN 1
     ELSE IF q.preRelease = <<>> THEN -1
     ELSE RefStringOrder(p.preRelease, q.preRelease)

\* C12: compareVersions equals the reference ordering for every pair: both
\* parse - major, minor, patch as integers, then a release outranks a
\* pre-release and two pre-releases compare byte-wise; either fails to
\* parse - the byte-wise comparison of the raw strings.
C12_ReferenceOrdering ==
  Compared =>
    res.c12 = IF BothValid THEN RefVersionOrder(res.p1, res.p2)
              ELSE RefStringOrder(arg.v1, arg.v2)

C12_Witness ==
  /\ Compared
  /\ BothValid
  /\ SameTriple
  /\ res.p1.preRelease # <<>>
  /\ res.p2.preRelease # <<>>
  /\ res.p1.preRelease # res.p2.preRelease
  /\ res.c12 = 1

C12_WitnessFallback ==
  /\ Compared
  /\ res.p1.ok
  /\ ~res.p2.ok
  /\ res.c12 = -1

\* C13: build metadata never affects comparison: two version strings that
\* differ only in their +build suffix compare as 0, and a parsed pre-release
\* never holds build metadata.
C13_BuildMetadataIgnored ==
  Compared =>
    /\ StripBuild(arg.v1) = StripBuild(arg.v2) => res.c12 = 0
    /\ res.p1.ok => IndexFrom(res.p1.preRelease, "+", 1) > Len(res.p1.preRelease)

\* a component Atoi reads as a number: an optional sign, then digits
IsNumeric(s) ==
  \/ AllDigits(s)
  \/ (s # <<>> /\ Head(s) \in {"+", "-"} /\ AllDigits(Tail(s)))

\* the major, minor and patch components a version string shows: the dotted
\* parts after the optional v, the third one up to its suffix
ShownComponents(version) ==
  LET body == IF version # <<>> /\ Head(version) = "v" THEN Tail(version) ELSE version
      parts == Split(body, ".")
      third == IF Len(parts) >= 3 THEN parts[3] ELSE <<>>
      cut == IF IndexFrom(third, "-", 1) < IndexFrom(third, "+", 1)
             THEN IndexFrom(third, "-", 1) ELSE IndexFrom(third, "+", 1)
  IN IF Len(parts) >= 3 THEN <<parts[1], parts[2], SubSeq(third, 1, cut - 1)>>
     ELSE parts

Parsed(major, minor, patch, preRelease) ==
  [ok |-> TRUE, major |-> major, minor |-> minor, patch |-> patch,
   preRelease |-> preRelease]

ParseAsClaimed(version, p) ==
  /\ version = <<"1">> => p = Parsed(1, 0, 0, <<>>)
  /\ version = <<"1", ".", "2">> => p = Parsed(1, 2, 0, <<>>)
  /\ version = <<"v", "1", ".", "2", ".", "3", "-", "b", "e", "t", "a", ".", "1">> => p = Parsed(1, 2, 3, <<"b", "e", "t", "a", ".", "1">>)
  /\ version = <<>> => ~p.ok
  /\ (\E i \in 1..Len(ShownComponents(version)) :
        ~IsNumeric(ShownComponents(version)[i])) => ~p.ok
  /\ (p.ok /\ Len(ShownComponents(version)) < 3) => p.patch = 0
  /\ (p.ok /\ Len(ShownComponents(version)) < 2) => p.minor = 0

\* C14: parseVersion accepts an optional leading v and partial versions with
\* minor and patch defaulting to 0; "1", "1.2" and "v1.2.3-beta.1" parse as
\* stated; the empty string and a non-numeric major, minor or patch give an
\* error.
C14_ParseVersion ==
  stage \in {"parsed", "out"} =>
    /\ ParseAsClaimed(arg.v1, res.p1)
    /\ ParseAsClaimed(arg.v2, res.p2)
    /\ (arg.v2 = <<"v">> \o arg.v1 /\ (arg.v1 = <<>> \/ Head(arg.v1) # "v"))
         => res.p2 = res.p1

C14_Witness ==
  /\ stage = "parsed"
  /\ arg.v1 = <<"1">>
  /\ arg.v2 = <<"v", "1", ".", "2", ".", "3", "-", "b", "e", "t", "a", ".", "1">>
  /\ res.p1 = Parsed(1, 0, 0, <<>>)
  /\ res.p2 = Parsed(1, 2, 3, <<"b", "e", "t", "a", ".", "1">>)

C14_WitnessError ==
  /\ stage = "parsed"
  /\ arg.v1 = <<"1", ".", "a">>
  /\ arg.v2 = <<"v">> \o arg.v1
  /\ ~res.p1.ok
  /\ ~res.p2.ok

----------------------------------------------------------------------------
(* Specification SpecParse: ParseMPromptContent on bounded contents *)

MaxParseLines == 4

TxtDotted == <<"x", ".", "y">>
TxtInt == <<"i", "n", "t">>

ParseLines ==
  { Separator, Raw(Dashes, 2), Raw(TxtX, 0), Raw(EmptyText, 0),
    KV("name", Str(TxtA)),
    KV("- id", Str(TxtX)), KV("- id", Str(TxtProto)), KV("- id", Str(TxtDotted)),
    KV("- description", Str(TxtY)),
    Sub("description", Str(TxtY)), Sub("type", Str(TxtInt)) }

\* n times the character c
Repeat(c, n) == [i \in 1..n |-> c]

\* a wizard section of n variables
ManyVariables(n) == [i \in 1..n |-> KV("- id", Str(TxtX))]

\* a wizard section of one variable with the given description
Described(text) == <<KV("- id", Str(TxtX)), Sub("description", Str(text))>>

\* wizard sections at the limits of validateWizardVariables
LimitWizards ==
  { ManyVariables(MaxVariables), ManyVariables(MaxVariables + 1),
    Described(Repeat("x", MaxDescription)), Described(Repeat("x", MaxDescription + 1)),
    Described(Repeat(CharWide, MaxDescription \div 2)),
    Described(Repeat(CharWide, (MaxDescription \div 2) + 1)) }

LimitContents ==
  { <<KV("name", Str(TxtA)), Separator>> \o wz \o <<Separator>> \o Template1 :
      wz \in LimitWizards }

ParseInit ==
  /\ arg \in SeqsUpTo(ParseLines, MaxParseLines) \cup LimitContents
  /\ res = <<>>
  /\ stage = "in"
  /\ CmdInit

Parse ==
  /\ stage = "in"
  /\ res' = ParseMPromptContent(arg)
  /\ stage' = "out"
  /\ UNCHANGED <<arg, cmdVars>>

ParseNext == Parse

SpecParse == ParseInit /\ [][ParseNext]_vars

Separators(content) == {i \in 1..Len(content) : IsSeparator(content[i])}

\* the lines with exactly n separator lines before them (n or more when
\* orMore), separator lines left out when dropAll, in their order
LinesAfter(content, n, orMore, keep) ==
  LET before(i) == Cardinality({j \in Separators(content) : j < i})
      idx == SelectSeq([i \in 1..Len(content) |-> i],
                       LAMBDA i : /\ i \notin keep => ~IsSeparator(content[i])
                                  /\ i \in keep => before(i) >= n
                                  /\ IF orMore THEN before(i) >= n ELSE before(i) = n)
  IN [k \in 1..Len(idx) |-> content[idx[k]]]

FrontmatterBucket(content) == LinesAfter(content, 0, FALSE, {})
WizardBucket(content) == LinesAfter(content, 1, FALSE, {})
TemplateBucket(content) == LinesAfter(content, 2, TRUE, {})

\* the sections deserialize and validate
SectionsValid(content) ==
  /\ yamlUnmarshalFrontmatter(FrontmatterBucket(content)).ok
  /\ yamlUnmarshalVariables(WizardBucket(content)).ok
  /\ validateWizardVariables(yamlUnmarshalVariables(WizardBucket(content)).vars)

BucketsAsCounted ==
  /\ res.ok = SectionsValid(arg)
  /\ res.ok =>
       /\ res.data.Frontmatter = yamlUnmarshalFrontmatter(FrontmatterBucket(arg)).fm
       /\ res.data.Variables = yamlUnmarshalVariables(WizardBucket(arg)).vars
       /\ res.data.Template = TrimTemplate(TemplateBucket(arg))
       /\ Cardinality(Separators(arg)) < 2 => res.data.Template = <<>>
       /\ Cardinality(Separators(arg)) < 1 => res.data.Variables = <<>>

\* C15 as claimed: lines go to the bucket of the number of separators seen,
\* separators go to no bucket, and content with zero or one separator still
\* parses, its missing sections empty.
C15_BucketsAlwaysParse ==
  stage = "out" =>
    /\ BucketsAsCounted
    /\ Cardinality(Separators(arg)) < 2 => res.ok

\* C15 amended: lines go to the bucket of the number of separators seen,
\* separators go to no bucket; content with zero or one separator parses
\* exactly when the sections it has deserialize and validate, and its missing
\* sections are then empty.
C15_Buckets ==
  stage = "out" => BucketsAsCounted

C15_Witness ==
  /\ stage = "out"
  /\ res.ok
  /\ Cardinality(Separators(arg)) = 1
  /\ Len(arg) = MaxParseLines
  /\ res.data.Frontmatter.name = Str(TxtA)
  /\ Len(res.data.Variables) = 1
  /\ res.data.Template = <<>>

\* the separator lines after the second one
LaterSeparators(content) ==
  {i \in Separators(content) : Cardinality({j \in Separators(content) : j < i}) >= 2}

\* C16: only the first two separator lines separate sections; every further
\* line equal to -- is template content and is in the parsed template at its
\* position.
C16_LaterSeparatorsKept ==
  (stage = "out" /\ res.ok) =>
    res.data.Template = TrimTemplate(LinesAfter(arg, 2, TRUE, LaterSeparators(arg)))

\* the claimed rules for one declared variable, lengths in characters
IdMatches(id) ==
  /\ id # <<>>
  /\ \A i \in 1..Len(id) : id[i] \in Lower \cup Upper \cup Digits \cup {"_", "-"}

VariableConforms(v, length(_)) ==
  /\ IdMatches(v.id)
  /\ v.id \notin dangerousNames
  /\ length(v.description) <= MaxDescription
  /\ v.type \in {EmptyText, TextString}

Declared == yamlUnmarshalVariables(WizardBucket(arg)).vars

Deserializes ==
  /\ yamlUnmarshalFrontmatter(FrontmatterBucket(arg)).ok
  /\ yamlUnmarshalVariables(WizardBucket(arg)).ok

\* C17: ParseMPromptContent returns no artifact when a declared variable has
\* an id outside ^[A-Za-z0-9_-]+$ or on the deny-list, or a prompt text of
\* more than 1000 characters, or when more than 100 variables are declared;
\* an artifact that breaks none of these rules is accepted.
C17_VariableRules ==
  (stage = "out" /\ Deserializes) =>
    res.ok = (/\ Len(Declared) <= MaxVariables
              /\ \A i \in 1..Len(Declared) : VariableConforms(Declared[i], Len))

\* the same rules with the prompt text measured in bytes
C17_VariableRulesInBytes ==
  (stage = "out" /\ Deserializes) =>
    res.ok = (/\ Len(Declared) <= MaxVariables
              /\ \A i \in 1..Len(Declared) : VariableConforms(Declared[i], ByteLen))

\* C18: every artifact ParseMPromptContent returns has pairwise distinct
\* variable ids.
C18_UniqueIds ==
  (stage = "out" /\ res.ok) =>
    \A i, j \in 1..Len(res.data.Variables) :
      res.data.Variables[i].id = res.data.Variables[j].id => i = j

----------------------------------------------------------------------------
(* Specification SpecName: ValidatePromptName on bounded names *)

MaxNameChars == 3

NameChars == {"a", "-", ".", "/", "\\", "\t", " ", CharDel, CharWide}

TxtTraversal == <<".", ".", "/", ".", ".", "/", "e", "t", "c", "/", "p", "a", "s", "s", "w", "d">>
TxtMyPrompt == <<"m", "y", "-", "p", "r", "o", "m", "p", "t">>

\* names at the length limit, and the two names of the scenario
LimitNames ==
  { Repeat("a", MaxNameLen), Repeat("a", MaxNameLen + 1),
    Repeat(CharWide, MaxNameLen \div 2), Repeat(CharWide, (MaxNameLen \div 2) + 1),
    TxtTraversal, TxtMyPrompt }

NameInit ==
  /\ arg \in SeqsUpTo(NameChars, MaxNameChars) \cup LimitNames
  /\ res = <<>>
  /\ stage = "in"
  /\ CmdInit

Validate ==
  /\ stage = "in"
  /\ res' = ValidatePromptName(arg)
  /\ stage' = "out"
  /\ UNCHANGED <<arg, cmdVars>>

NameNext == Validate

SpecName == NameInit /\ [][NameNext]_vars

HasPair(name, c, d) == \E i \in 1..(Len(name) - 1) : name[i] = c /\ name[i + 1] = d

IsControl(c) == CharCode(c) < 32 \/ CharCode(c) = 127

NameRules(name, length(_)) ==
  /\ name # <<>>
  /\ length(name) <= MaxNameLen
  /\ ~HasPair(name, ".", ".")
  /\ \A i \in 1..Len(name) : name[i] \notin {"/", "\\"} /\ ~IsControl(name[i])

\* C19: ValidatePromptName accepts a name exactly when it is non-empty, at
\* most 100 characters long and holds no "..", no "/", no "\" and no control
\* character; "../../etc/passwd" fails and "my-prompt" succeeds.
C19_NameRules ==
  stage = "out" =>
    /\ res = NameRules(arg, Len)
    /\ arg = TxtTraversal => ~res
    /\ arg = TxtMyPrompt => res

\* the same rules with the length measured in bytes
C19_NameRulesInBytes ==
  stage = "out" =>
    /\ res = NameRules(arg, ByteLen)
    /\ arg = TxtTraversal => ~res
    /\ arg = TxtMyPrompt => res

----------------------------------------------------------------------------
(* Specification SpecLoad: LoadPrompt up to its reads *)

TxtMarvai == <<".", "m", "a", "r", "v", "a", "i">>
ExtMprompt == <<".", "m", "p", "r", "o", "m", "p", "t">>
ExtVar == <<".", "v", "a", "r">>

\* os.PathSeparator
PathSeparator(windows) == IF windows THEN "\\" ELSE "/"

\* the path elements after the lexical processing of filepath.Clean: empty
\* elements and "." dropped, ".." removing the element before it
RECURSIVE CleanElements(_, _)
CleanElements(parts, acc) ==
  IF parts = <<>> THEN acc
  ELSE IF Head(parts) \in {<<>>, <<".">>} THEN CleanElements(Tail(parts), acc)
  ELSE IF Head(parts) = <<".", ".">> /\ acc # <<>> /\ acc[Len(acc)] # <<".", ".">>
    THEN CleanElements(Tail(parts), SubSeq(acc, 1, Len(acc) - 1))
  ELSE CleanElements(Tail(parts), Append(acc, Head(parts)))

RECURSIVE JoinElements(_, _)
JoinElements(parts, sep) ==
  IF Len(parts) = 1 THEN parts[1]
  ELSE parts[1] \o <<sep>> \o JoinElements(Tail(parts), sep)

\* filepath.Clean of a relative path; on Windows a slash is a separator too
Clean(path, windows) ==
  LET sep == PathSeparator(windows)
      unified == [i \in 1..Len(path) |->
                    IF windows /\ path[i] = "/" THEN sep ELSE path[i]]
      parts == CleanElements(Split(unified, sep), <<>>)
  IN IF parts = <<>> THEN <<".">> ELSE JoinElements(parts, sep)

\* filepath.Join(".marvai", file)
Join(dir, file, windows) == Clean(dir \o <<PathSeparator(windows)>> \o file, windows)

HasPrefix(s, prefix) == Len(s) >= Len(prefix) /\ SubSeq(s, 1, Len(prefix)) = prefix

\* a check that accepts every file
validateFileAcceptsLinks(kind, lstat) == TRUE

\* validateFileIsNotSymlink: kind is what Lstat finds at the path, lstat tells
\* whether the file system can lstat at all
validateFileIsNotSymlink(kind, lstat) == ~(lstat /\ kind = "symlink")

validateFileWithinMarvaiDirectory(filePath, windows) ==
  LET cleanPath == Clean(filePath, windows) IN
  /\ HasPrefix(cleanPath, TxtMarvai \o <<"/">>) \/ cleanPath = TxtMarvai
  /\ ~Contains(cleanPath, <<".", ".">>)

LoadNameChars == {"a", ".", "/", "\\"}

FileKinds == {"missing", "regular", "symlink"}

LoadInit ==
  /\ arg \in [promptName : SeqsUpTo(LoadNameChars, MaxNameChars),
              mprompt : FileKinds, var : FileKinds,
              lstat : BOOLEAN, windows : BOOLEAN, parses : BOOLEAN]
  /\ res = [opened |-> <<>>, err |-> ""]
  /\ stage = "in"
  /\ CmdInit

LoadMpromptFile == Join(TxtMarvai, arg.promptName \o ExtMprompt, arg.windows)
LoadVarFile == Join(TxtMarvai, arg.promptName \o ExtVar, arg.windows)

LoadFail(message) ==
  /\ res' = [res EXCEPT !.err = message]
  /\ stage' = "out"

LoadValidate ==
  /\ stage = "in"
  /\ IF ~ValidatePromptName(arg.promptName) THEN LoadFail("invalid prompt name")
     ELSE stage' = "symlinks" /\ UNCHANGED res
  /\ UNCHANGED <<arg, cmdVars>>

LoadSymlinks ==
  /\ stage = "symlinks"
  /\ IF /\ validateFileIsNotSymlink(arg.mprompt, arg.lstat)
        /\ validateFileIsNotSymlink(arg.var, arg.lstat)
     THEN stage' = "paths" /\ UNCHANGED res
     ELSE LoadFail("security error: symbolic link")
  /\ UNCHANGED <<arg, cmdVars>>

LoadPaths ==
  /\ stage = "paths"
  /\ IF /\ validateFileWithinMarvaiDirectory(LoadMpromptFile, arg.windows)
        /\ validateFileWithinMarvaiDirectory(LoadVarFile, arg.windows)
     THEN stage' = "read" /\ UNCHANGED res
     ELSE LoadFail("security error: path")
  /\ UNCHANGED <<arg, cmdVars>>

\* afero.ReadFile of the artifact and ParseMPromptContent
LoadRead ==
  /\ stage = "read"
  /\ res' = [opened |-> Append(res.opened, LoadMpromptFile),
             err |-> IF arg.mprompt = "missing" THEN "error reading .mprompt file"
                     ELSE IF ~arg.parses THEN "error parsing .mprompt file"
                     ELSE ""]
  /\ stage' = IF arg.mprompt = "missing" \/ ~arg.parses THEN "out" ELSE "values"
  /\ UNCHANGED <<arg, cmdVars>>

\* afero.ReadFile of the values file; a failed read gives the empty map
LoadValues ==
  /\ stage = "values"
  /\ res' = [res EXCEPT !.opened = Append(@, LoadVarFile)]
  /\ stage' = "out"
  /\ UNCHANGED <<arg, cmdVars>>

LoadNext == LoadValidate \/ LoadSymlinks \/ LoadPaths \/ LoadRead \/ LoadValues

SpecLoad == LoadInit /\ [][LoadNext]_vars

\* .marvai/<name>.mprompt and .marvai/<name>.var
StoredArtifact == TxtMarvai \o <<"/">> \o arg.promptName \o ExtMprompt
StoredValues == TxtMarvai \o <<"/">> \o arg.promptName \o ExtVar

KindAt(path) == IF path = StoredArtifact THEN arg.mprompt ELSE arg.var

C20_WitnessUnreported ==
  /\ stage = "out"
  /\ res.opened = <<StoredArtifact, StoredValues>>
  /\ arg.var = "symlink"
  /\ ~arg.lstat

C20_WitnessRefused ==
  /\ stage = "out"
  /\ ValidatePromptName(arg.promptName)
  /\ arg.mprompt = "regular"
  /\ arg.var = "symlink"
  /\ arg.lstat
  /\ res.opened = <<>>
  /\ res.err = "security error: symbolic link"

----------------------------------------------------------------------------
(* Specification SpecWizard: ExecuteWizardWithReader, one question a step *)

MaxWizardVars == 3

WizardVariables ==
  {[ZeroVariable(id) EXCEPT !.required = r] : id \in {TxtA, TxtB}, r \in BOOLEAN}

WizardAnswers == {EmptyText, <<" ">>, <<" ", "x", " ">>}

\* the reader: the lines it delivers, and whether it ends in a read error
\* (scanner.Err() # nil) or at the end of the input
WizardReaders ==
  [lines : SeqsUpTo(WizardAnswers, MaxWizardVars), fails : BOOLEAN]

\* scanner.Scan() for the i-th question
Scan(reader, i) ==
  IF i <= Len(reader.lines)
    THEN [ok |-> TRUE, text |-> reader.lines[i], err |-> FALSE]
    ELSE [ok |-> FALSE, text |-> EmptyText, err |-> reader.fails]

\* a loop body that stores every answer
WizardBodyNoRequired(variable, scanned, values) ==
  [err |-> "", values |-> Put(values, variable.id, TrimSpace(scanned.text))]

\* the body of the loop of ExecuteWizardWithReader
WizardBody(variable, scanned, values) ==
  IF scanned.ok THEN
    LET response == TrimSpace(scanned.text) IN
    IF variable.required /\ response = EmptyText
      THEN [err |-> "is required", values |-> NoValues]
      ELSE [err |-> "", values |-> Put(values, variable.id, response)]
  ELSE IF scanned.err THEN [err |-> "error reading input", values |-> NoValues]
  ELSE IF variable.required
    THEN [err |-> "is required but EOF encountered", values |-> NoValues]
  ELSE [err |-> "", values |-> Put(values, variable.id, EmptyText)]

WizardInit ==
  /\ arg \in [variables : SeqsUpTo(WizardVariables, MaxWizardVars), reader : WizardReaders]
  /\ res = [asked |-> <<>>, values |-> NoValues, err |-> ""]
  /\ stage = "loop"
  /\ CmdInit

\* one iteration: the question is printed, one line is scanned
WizardAsk ==
  /\ stage = "loop"
  /\ Len(res.asked) < Len(arg.variables)
  /\ LET i == Len(res.asked) + 1
         variable == arg.variables[i]
         step == WizardBody(variable, Scan(arg.reader, i), res.values)
     IN /\ res' = [asked |-> Append(res.asked, variable.id),
                   values |-> step.values, err |-> step.err]
        /\ stage' = IF step.err # "" THEN "out" ELSE "loop"
  /\ UNCHANGED <<arg, cmdVars>>

WizardReturn ==
  /\ stage = "loop"
  /\ Len(res.asked) = Len(arg.variables)
  /\ stage' = "out"
  /\ UNCHANGED <<arg, res, cmdVars>>

WizardNext == WizardAsk \/ WizardReturn

SpecWizard == WizardInit /\ [][WizardNext]_vars

\* the answer to the i-th question: the trimmed i-th line, empty when missing
Answer(i) ==
  IF i <= Len(arg.reader.lines) THEN TrimSpace(arg.reader.lines[i]) ELSE EmptyText

ReadFails(i) == i > Len(arg.reader.lines) /\ arg.reader.fails

Unanswered(i) == arg.variables[i].required /\ Answer(i) = EmptyText

Stops(i) == ReadFails(i) \/ Unanswered(i)

LastDeclared(id) ==
  CHOOSE i \in 1..Len(arg.variables) :
    /\ arg.variables[i].id = id
    /\ \A j \in (i + 1)..Len(arg.variables) : arg.variables[j].id # id

\* C21: the wizard asks once per declared variable in declaration order; a
\* required variable with an empty or missing answer (end of input included)
\* is an error that returns no values; a non-required variable with an empty
\* or missing answer gets the empty string; on success the result has exactly
\* one entry per declared variable id.  A failing read is an error too.
C21_WizardPass ==
  LET n == Len(arg.variables)
      k == Len(res.asked) IN
  /\ k <= n
  /\ \A i \in 1..k : res.asked[i] = arg.variables[i].id
  /\ \A i \in 1..(k - 1) : ~Stops(i)
  /\ stage = "out" =>
       /\ res.err = "" <=> \A i \in 1..n : ~Stops(i)
       /\ res.err # "" => res.values = NoValues /\ Stops(k)
       /\ res.err = "" =>
            /\ k = n
            /\ DOMAIN res.values = {arg.variables[i].id : i \in 1..n}
            /\ \A id \in DOMAIN res.values : res.values[id] = Answer(LastDeclared(id))
            /\ \A i \in 1..n :
                 (~arg.variables[i].required /\ Answer(i) = EmptyText /\ LastDeclared(arg.variables[i].id) = i)
                   => res.values[arg.variables[i].id] = EmptyText
       /\ ~arg.reader.fails =>
            ExecuteWizardWithReader(arg.variables, arg.reader.lines)
              = [ok |-> res.err = "", values |-> res.values]

C21_Witness ==
  /\ stage = "out"
  /\ res.err = ""
  /\ Len(arg.variables) = 3
  /\ Len(arg.reader.lines) = 1
  /\ arg.variables[1].required
  /\ ~arg.variables[2].required
  /\ arg.variables[1].id # arg.variables[2].id
  /\ res.values[arg.variables[2].id] = EmptyText

C21_WitnessRequired ==
  /\ stage = "out"
  /\ res.err = "is required but EOF encountered"
  /\ Len(res.asked) = 2
  /\ Len(arg.variables) = 3
  /\ res.values = NoValues

----------------------------------------------------------------------------
(* Specification SpecPrefill: the pre-filled wizard of UpdatePrompt *)

TxtStored == <<"s">>

\* the values file read before the update: existingValues
PrefillValues ==
  { NoValues,
    [id \in {TxtA} |-> TxtStored],
    [id \in {TxtA} |-> EmptyText],
    [id \in {TxtA, TxtB} |-> TxtStored] }

PrefillInit ==
  /\ arg \in [variables : SeqsUpTo(WizardVariables, MaxWizardVars),
              prefill : PrefillValues,
              reader : {r \in WizardReaders : ~r.fails}]
  /\ res = <<>>
  /\ stage = "in"
  /\ CmdInit

Prefill ==
  /\ stage = "in"
  /\ res' = ExecuteWizardWithPrefills(arg.variables, arg.prefill, arg.reader.lines)
  /\ stage' = "out"
  /\ UNCHANGED <<arg, cmdVars>>

PrefillNext == Prefill

SpecPrefill == PrefillInit /\ [][PrefillNext]_vars

\* the stored value offered as the default of the i-th variable
Offered(i) ==
  IF arg.variables[i].id \in DOMAIN arg.prefill
    THEN arg.prefill[arg.variables[i].id] ELSE EmptyText

Resolved(i) == IF Answer(i) # EmptyText THEN Answer(i) ELSE Offered(i)

\* C22: in the pre-filled wizard empty input reuses the stored value,
\* non-empty input overrides it, and a required variable with no stored
\* value and empty input is an error.
C22_PrefilledWizard ==
  stage = "out" =>
    LET n == Len(arg.variables) IN
    /\ res.ok <=> \A i \in 1..n : ~(arg.variables[i].required /\ Resolved(i) = EmptyText)
    /\ ~res.ok => res.values = NoValues
    /\ res.ok =>
         /\ DOMAIN res.values = {arg.variables[i].id : i \in 1..n}
         /\ \A id \in DOMAIN res.values : res.values[id] = Resolved(LastDeclared(id))

C22_Witness ==
  /\ stage = "out"
  /\ res.ok
  /\ Len(arg.variables) = 2
  /\ arg.variables[1].id = TxtA
  /\ arg.variables[2].id = TxtB
  /\ arg.variables[1].required
  /\ Answer(1) = EmptyText
  /\ Answer(2) # EmptyText
  /\ arg.prefill = [id \in {TxtA, TxtB} |-> TxtStored]
  /\ res.values[TxtA] = TxtStored
  /\ res.values[TxtB] = Answer(2)

C22_WitnessRequired ==
  /\ stage = "out"
  /\ ~res.ok
  /\ arg.prefill = NoValues
  /\ Len(arg.variables) = 1
  /\ arg.variables[1].required
  /\ Answer(1) = EmptyText

----------------------------------------------------------------------------
(* Specification SpecManifest: the entry parsing of fetchRemotePrompts.  A
   manifest text is a sequence of atoms: single characters, and the tokens
   "name: ", "file: ", "description: " standing for a YAML key with its colon
   and blank. *)

MaxManifestLines == 5

KeyName == "name: "
KeyFile == "file: "
KeyDescription == "description: "

ManifestKeys == {KeyName, KeyFile, KeyDescription}

\* the lines a manifest is drawn from
ManifestLines ==
  { <<KeyName, "a">>, <<KeyName, "b">>, <<KeyFile, "f">>,
    <<KeyDescription, "x", "-", "-", "y">>, Dashes, <<"j">> }

\* the manifest as one string
ManifestText(lines) == IF lines = <<>> THEN EmptyText ELSE JoinLines(lines)

\* index of the first "--" in s at or after i, Len + 1 if none
RECURSIVE IndexDashes(_, _)
IndexDashes(s, i) ==
  IF i >= Len(s) THEN Len(s) + 1
  ELSE IF s[i] = "-" /\ s[i + 1] = "-" THEN i
  ELSE IndexDashes(s, i + 1)

\* strings.Split(promptsText, "--")
RECURSIVE SplitDashes(_)
SplitDashes(s) ==
  LET i == IndexDashes(s, 1) IN
  IF i > Len(s) THEN <<s>>
  ELSE <<SubSeq(s, 1, i - 1)>> \o SplitDashes(SubSeq(s, i + 2, Len(s)))

WhiteSpace == {" ", "\n", "\t", "\r"}

\* strings.TrimSpace on a text of several lines
RECURSIVE TrimSpaceLines(_)
TrimSpaceLines(s) ==
  IF s # <<>> /\ Head(s) \in WhiteSpace THEN TrimSpaceLines(Tail(s))
  ELSE IF s # <<>> /\ s[Len(s)] \in WhiteSpace THEN TrimSpaceLines(SubSeq(s, 1, Len(s) - 1))
  ELSE s

SetEntryField(entry, key, value) ==
  IF key = KeyName THEN [entry EXCEPT !.Name = value]
  ELSE IF key = KeyFile THEN [entry EXCEPT !.File = value]
  ELSE [entry EXCEPT !.Description = value]

\* yaml.Unmarshal([]byte(trimmed), &entry): a mapping of one `key: value` per
\* line; a line that is no such pair, and a key given twice, are errors
RECURSIVE EntryDecode(_, _, _, _)
EntryDecode(lines, i, entry, seen) ==
  IF i > Len(lines) THEN [ok |-> TRUE, entry |-> entry]
  ELSE LET ln == lines[i] IN
    IF TrimSpace(ln) = EmptyText THEN EntryDecode(lines, i + 1, entry, seen)
    ELSE IF Head(ln) \notin ManifestKeys \/ Head(ln) \in seen
      THEN [ok |-> FALSE, entry |-> NoEntry]
    ELSE EntryDecode(lines, i + 1, SetEntryField(entry, Head(ln), TrimSpace(Tail(ln))),
                     seen \cup {Head(ln)})

yamlUnmarshalEntry(text) == EntryDecode(Split(text, "\n"), 1, NoEntry, {})

\* the loop of fetchRemotePrompts over the entry texts
RECURSIVE EntryLoop(_, _, _)
EntryLoop(entryTexts, i, acc) ==
  IF i > Len(entryTexts) THEN acc
  ELSE LET trimmed == TrimSpaceLines(entryTexts[i])
           decoded == yamlUnmarshalEntry(trimmed)
       IN IF trimmed = EmptyText THEN EntryLoop(entryTexts, i + 1, acc)
          ELSE IF ~decoded.ok
            THEN EntryLoop(entryTexts, i + 1, [acc EXCEPT !.skippedEntries = @ + 1])
          ELSE IF decoded.entry.Name # EmptyText /\ decoded.entry.File # EmptyText
            THEN EntryLoop(entryTexts, i + 1,
                           [acc EXCEPT !.promptEntries = Append(@, decoded.entry)])
          ELSE EntryLoop(entryTexts, i + 1, [acc EXCEPT !.skippedEntries = @ + 1])

NoEntries == [promptEntries |-> <<>>, skippedEntries |-> 0]

\* fetchRemotePrompts from the content read to its result
parsePromptEntries(content) == EntryLoop(SplitDashes(content), 1, NoEntries)

ManifestInit ==
  /\ arg \in SeqsUpTo(ManifestLines, MaxManifestLines)
  /\ res = <<>>
  /\ stage = "in"
  /\ CmdInit

ManifestParse ==
  /\ stage = "in"
  /\ res' = parsePromptEntries(ManifestText(arg))
  /\ stage' = "out"
  /\ UNCHANGED <<arg, cmdVars>>

ManifestNext == ManifestParse

SpecManifest == ManifestInit /\ [][ManifestNext]_vars

\* the entry texts of a manifest delimited by its bare `--` lines
RECURSIVE BareSplit(_, _)
BareSplit(lines, current) ==
  IF lines = <<>> THEN <<current>>
  ELSE IF TrimSpace(Head(lines)) = Dashes
    THEN <<current>> \o BareSplit(Tail(lines), <<>>)
  ELSE BareSplit(Tail(lines), Append(current, Head(lines)))

BareEntryTexts(lines) ==
  LET groups == BareSplit(lines, <<>>) IN
  [g \in 1..Len(groups) |-> ManifestText(groups[g])]

HasInnerDashes(lines) ==
  \E i \in 1..Len(lines) : TrimSpace(lines[i]) # Dashes /\ IndexDashes(lines[i], 1) <= Len(lines[i])

\* C23: manifest entries are delimited only by bare `--` lines; an entry that
\* is malformed or lacks name or file is skipped and counted, and every
\* well-formed entry is returned, in manifest order.
C23_BareSeparators ==
  stage = "out" => res = EntryLoop(BareEntryTexts(arg), 1, NoEntries)

\* the same for manifests whose entry lines hold no `--`
C23_TolerantPerEntry ==
  (stage = "out" /\ ~HasInnerDashes(arg)) => res = EntryLoop(BareEntryTexts(arg), 1, NoEntries)

C23_WitnessTolerant ==
  /\ stage = "out"
  /\ ~HasInnerDashes(arg)
  /\ Len(res.promptEntries) = 1
  /\ res.skippedEntries = 1
  /\ arg[1] = <<"j">>

----------------------------------------------------------------------------
(* Specification SpecAgent: RunWithPromptAndRunner from the command's set-up
   on.  res holds the position of the caller (main) and of the goroutine
   that writes to stdin (writer), the channel done, whether stdin is closed
   and whether the 10 s timer has fired; an error value is "" for nil. *)

\* make(chan error, 1)
DoneCapacity == 1

CliTools == {"claude", "gemini", "codex"}

\* a receive that does not wait for a value
ChanAlwaysReady(channel) == TRUE

\* a receive from channel can proceed
ChanReady(channel) == Len(channel) > 0

\* a send to channel can proceed
ChanFree(channel) == Len(channel) < DoneCapacity

AgentIdle ==
  [main |-> "start", writer |-> "none", done |-> <<>>, stdinClosed |-> FALSE,
   expired |-> FALSE, writeErr |-> "", received |-> "", waited |-> FALSE, ret |-> ""]

AgentInit ==
  /\ arg \in [cliTool : CliTools, loadFails : BOOLEAN, pipeFails : BOOLEAN,
              startFails : BOOLEAN]
  /\ res = AgentIdle
  /\ stage = "run"
  /\ CmdInit

AgentReturn(result) == [res EXCEPT !.main = "done", !.ret = result]

\* LoadPrompt, runner.Command, cmd.StdinPipe, cmd.Start and the go statement
AgentStart ==
  /\ res.main = "start"
  /\ IF arg.loadFails THEN res' = AgentReturn("error reading file")
     ELSE IF arg.cliTool = "codex"
       THEN \E runErr \in {"", "exit status 1"} : res' = AgentReturn(runErr)
     ELSE IF arg.pipeFails THEN res' = AgentReturn("error creating stdin pipe")
     ELSE IF arg.startFails
       THEN res' = [AgentReturn("error starting") EXCEPT !.stdinClosed = TRUE]
     ELSE res' = [res EXCEPT !.main = "select", !.writer = "write"]
  /\ UNCHANGED <<arg, stage, cmdVars>>

\* stdin.Write(content); it returns when the process has read or the pipe broke
WriterWrite ==
  /\ res.writer = "write"
  /\ \E e \in {"", "broken pipe"} :
       res' = [res EXCEPT !.writeErr = e,
                          !.writer = IF e = "" /\ arg.cliTool = "claude" THEN "exit" ELSE "send"]
  /\ UNCHANGED <<arg, stage, cmdVars>>

\* stdin.Write([]byte("\n/exit\n"))
WriterExit ==
  /\ res.writer = "exit"
  /\ \E e \in {"", "broken pipe"} : res' = [res EXCEPT !.writeErr = e, !.writer = "send"]
  /\ UNCHANGED <<arg, stage, cmdVars>>

\* done <- writeErr
WriterSend ==
  /\ res.writer = "send"
  /\ ChanFree(res.done)
  /\ res' = [res EXCEPT !.done = Append(@, res.writeErr), !.writer = "close"]
  /\ UNCHANGED <<arg, stage, cmdVars>>

\* the deferred stdin.Close()
WriterClose ==
  /\ res.writer = "close"
  /\ res' = [res EXCEPT !.stdinClosed = TRUE, !.writer = "done"]
  /\ UNCHANGED <<arg, stage, cmdVars>>

\* the timer of time.After(10 * time.Second) fires
TimerFires ==
  /\ res.main = "select"
  /\ ~res.expired
  /\ res' = [res EXCEPT !.expired = TRUE]
  /\ UNCHANGED <<arg, stage, cmdVars>>

\* select, case writeErr = <-done
MainReceive ==
  /\ res.main = "select"
  /\ ChanReady(res.done)
  /\ res' = [res EXCEPT !.main = "wait",
                        !.received = IF res.done = <<>> THEN "" ELSE Head(res.done),
                        !.done = IF res.done = <<>> THEN <<>> ELSE Tail(res.done)]
  /\ UNCHANGED <<arg, stage, cmdVars>>

\* select, case <-time.After(10 * time.Second)
MainTimeout ==
  /\ res.main = "select"
  /\ res.expired
  /\ res' = AgentReturn("timeout waiting for stdin write to complete")
  /\ UNCHANGED <<arg, stage, cmdVars>>

\* cmd.Wait() and the choice of the error returned
MainWait ==
  /\ res.main = "wait"
  /\ \E waitErr \in {"", "exit status 1"} :
       res' = [AgentReturn(IF res.received # "" /\ waitErr = "" THEN "error writing to stdin"
                           ELSE IF waitErr # "" THEN "error running"
                           ELSE "")
                EXCEPT !.waited = TRUE]
  /\ UNCHANGED <<arg, stage, cmdVars>>

AgentNext ==
  \/ AgentStart
  \/ WriterWrite
  \/ WriterExit
  \/ WriterSend
  \/ WriterClose
  \/ TimerFires
  \/ MainReceive
  \/ MainTimeout
  \/ MainWait

SpecAgent == AgentInit /\ [][AgentNext]_vars

\* the scheduler runs a goroutine that can take a step
SpecAgentFair == SpecAgent /\ WF_vars(WriterSend) /\ WF_vars(WriterClose)

Delivered == res.writer \in {"close", "done"}

\* C24: in stdin mode the write runs concurrently with the caller, the caller
\* waits for the process only after the writer has reported completion, it
\* returns the timeout failure only once the bounded wait is over and always
\* when the wait is over with nothing reported, and in every interleaving the
\* writer's send can proceed at once and stdin is closed only after it.
C24_WriteThenWait_State ==
  /\ res.main = "wait" \/ res.waited => Delivered
  /\ res.ret = "timeout waiting for stdin write to complete" => res.expired /\ ~res.waited
  /\ res.writer = "send" => ChanFree(res.done)
  /\ (res.stdinClosed /\ res.writer # "none") => res.writer = "done"
  /\ res.writer # "none" => arg.cliTool \in {"claude", "gemini"}

C24_WriteThenWait_Step ==
  (res.main = "select" /\ res'.main # "select" /\ res.expired /\ res.done = <<>>)
    => res'.ret = "timeout waiting for stdin write to complete"

C24_WriteThenWait == [](C24_WriteThenWait_State) /\ [][C24_WriteThenWait_Step]_vars

\* the caller waits for the process while the writer is still closing stdin
C24_Witness ==
  /\ res.main = "wait"
  /\ res.writer = "close"
  /\ ~res.stdinClosed
  /\ res.expired

\* the caller has returned the timeout failure, the writer delivers afterwards
C24_WitnessLate ==
  /\ res.main = "done"
  /\ res.ret = "timeout waiting for stdin write to complete"
  /\ res.writer = "done"
  /\ res.done # <<>>
  /\ res.stdinClosed

\* once the write has returned the result is delivered and stdin is closed
C24_ClosesEventually == (res.writer = "send") ~> res.stdinClosed

----------------------------------------------------------------------------
(* Specification SpecOrder: compareVersions on three bounded strings *)

MaxOrderLen == 2

OrderChars == {"1", "2", "a"}

OrderInit ==
  /\ arg \in [a : SeqsUpTo(OrderChars, MaxOrderLen),
              b : SeqsUpTo(OrderChars, MaxOrderLen),
              c : SeqsUpTo(OrderChars, MaxOrderLen)]
  /\ res = <<>>
  /\ stage = "in"
  /\ CmdInit

OrderCompare ==
  /\ stage = "in"
  /\ res' = [ab |-> compareVersions(arg.a, arg.b),
             bc |-> compareVersions(arg.b, arg.c),
             ac |-> compareVersions(arg.a, arg.c)]
  /\ stage' = "out"
  /\ UNCHANGED <<arg, cmdVars>>

OrderNext == OrderCompare

SpecOrder == OrderInit /\ [][OrderNext]_vars

\* C29: compareVersions is transitive over all strings, parsable as versions
\* or not: compareVersions(a, b) <= 0 and compareVersions(b, c) <= 0 imply
\* compareVersions(a, c) <= 0.
C29_Transitive ==
  stage = "out" => ((res.ab <= 0 /\ res.bc <= 0) => res.ac <= 0)

AllParse == \A v \in {arg.a, arg.b, arg.c} : parseVersion(v).ok

NoneParses == \A v \in {arg.a, arg.b, arg.c} : ~parseVersion(v).ok

\* the same when the three strings all parse, or all fail to parse
C29_TransitiveUnmixed ==
  (stage = "out" /\ (AllParse \/ NoneParses)) =>
    ((res.ab <= 0 /\ res.bc <= 0) => res.ac <= 0)

----------------------------------------------------------------------------
(* Specification SpecFind: findPromptByName on bounded manifests *)

MaxFindEntries == 2

FindEntries ==
  { PromptEntry(n, d, EmptyText, TxtF, NoHash) :
      n \in {TxtA, <<"A">>, TxtB}, d \in {EmptyText, TxtA, <<"x", "b">>} }

FindQueries == {TxtA, <<" ", "A", " ">>, TxtB, TxtX}

FindInit ==
  /\ arg \in [prompts : SeqsUpTo(FindEntries, MaxFindEntries), name : FindQueries]
  /\ res = <<>>
  /\ stage = "in"
  /\ CmdInit

Find ==
  /\ stage = "in"
  /\ res' = findPromptByName(arg.prompts, arg.name)
  /\ stage' = "out"
  /\ UNCHANGED <<arg, cmdVars>>

FindNext == Find

SpecFind == FindInit /\ [][FindNext]_vars

Query == ToLower(TrimSpace(arg.name))

NameMatches == {i \in 1..Len(arg.prompts) : ToLower(arg.prompts[i].Name) = Query}

DescriptionMatches ==
  {i \in 1..Len(arg.prompts) : Contains(ToLower(arg.prompts[i].Description), Query)}

First(S) == CHOOSE i \in S : \A j \in S : i <= j

\* C30: findPromptByName returns the entry whose name equals the query, case
\* ignored and after trimming, whenever the manifest holds such an entry; a
\* match on the description is used only when no entry's name matches.
C30_NameMatchFirst ==
  stage = "out" =>
    /\ NameMatches # {} => (res.found /\ res.entry = arg.prompts[First(NameMatches)])
    /\ (res.found /\ ToLower(res.entry.Name) # Query) => NameMatches = {}

\* the same for manifests in which no description before the first name match
\* holds the query
C30_NameMatchUndisturbed ==
  (stage = "out" /\ NameMatches # {}
     /\ \A i \in DescriptionMatches : i >= First(NameMatches)) =>
    (res.found /\ res.entry = arg.prompts[First(NameMatches)])

====
